---------------------------- MODULE Spec2Model ----------------------------
(***************************************************************************)
(* libsplinter: the shared-memory key-value store of src/splinter.c.       *)
(*                                                                         *)
(* The mapped region is the header H, the slot table S and the value       *)
(* arena mem.  Every process runs one library call at a time; a call is    *)
(* a sequence of steps, one step per access to the shared region, so that  *)
(* the calls of different processes interleave between any two accesses.   *)
(* Atomics are taken sequentially consistent.                              *)
(***************************************************************************)
EXTENDS Naturals, Integers, Sequences, FiniteSets, TLC

(***************************************************************************)
(* Bounds of the model                                                     *)
(***************************************************************************)
\* calls one process issues in a run of the reader/writer configurations
MaxOps == 2
\* calls the second writer issues in the configuration of two colliding writers
MaxSets == 1
\* calls the process of a sequential configuration issues
SeqOps == 6
\* calls the process of the type-conversion configuration issues
TypeOps == 7
\* integer_op calls each process of the increment configuration issues
IncOps == 2
\* integer_op and get calls of the integer-operation configuration
OpOps == 3
\* calls the process of the label configuration issues
LabelOps == 6
\* calls the writer of the poll configuration issues
PollOps == 3
\* calls the process of the purge configuration issues
PurgeOps == 5
\* calls the process of the open configuration issues
OpenOps == 4
\* calls the process of the exhausted-bump configuration issues
NomemOps == 4
\* calls the process of the value-length configuration issues
LenOps == 4
\* calls the process of the list configuration issues
ListOps == 5
\* watch calls the process of the register/unregister configuration issues
PairOps == 4
\* calls the setting process of the signal configuration issues
SigOps == 4
\* orders of the tandem configuration
TandemOrders == 2
\* components of an embedding the model keeps (SPLINTER_EMBED_DIM floats in
\* the code), each copied by a step of its own
EmbedDim == 2
\* calls the process of the embedding configuration issues
EmbedOps == 5
\* calls the process of the zero-hash configuration issues
ZeroOps == 3
\* set_av and set_hybrid_av calls each process of the scrub-flag
\* configuration issues
AvOps == 3
\* sets the writer of the scrub configuration issues
ScrubOps == 2

\* sets before the create on the existing object
CreateOps == 2

\* integer operations after the rewrite of a typed key
MaskOps == 1

(***************************************************************************)
(* Constants of src/splinter.h                                             *)
(***************************************************************************)
SPLINTER_KEY_MAX == 64
SPLINTER_MAX_GROUPS == 64
SPL_SYS_AUTO_SCRUB == 1
SPL_SYS_HYBRID_SCRUB == 2
SPL_SLOT_TYPE_VOID == 1
SPL_SLOT_TYPE_BIGUINT == 4
SPL_SLOT_TYPE_VARTEXT == 128
SPL_SLOT_DEFAULT_TYPE == SPL_SLOT_TYPE_VOID
SPLINTER_MAGIC == "SLNT"
SPLINTER_VER == 2
SPL_OP_AND == 0
SPL_OP_OR == 1
SPL_OP_XOR == 2
SPL_OP_NOT == 3
SPL_OP_INC == 4
SPL_OP_DEC == 5
\* sizeof(struct splinter_header), sizeof(struct splinter_slot) on LP64 with
\* SPLINTER_EMBEDDINGS (the Makefile's CFLAGS)
SizeofHeader == 4224
SizeofSlot == 3200
\* "no watch" in bloom_watches
NoWatch == 255

\* errno values and return outcomes are kept as strings
OK == "OK"
EAGAIN == "EAGAIN"
NOTFOUND == "NOTFOUND"
EMSGSIZE == "EMSGSIZE"
EINVAL == "EINVAL"
EFULL == "EFULL"
EPROTOTYPE == "EPROTOTYPE"
ENOMEM == "ENOMEM"
ENOENT == "ENOENT"
ETIMEDOUT == "ETIMEDOUT"
ENOTSUP == "ENOTSUP"
EEXIST == "EEXIST"
NONE == "NONE"
\* no value: the history holds no value of a key
NoValue == <<>>

(***************************************************************************)
(* Arithmetic on bytes and on 64-bit words (four 16-bit limbs, low first)  *)
(***************************************************************************)
Min(a, b) == IF a < b THEN a ELSE b

Max(a, b) == IF a < b THEN b ELSE a

W16 == 256 * 256

RECURSIVE BitXor(_, _)
BitXor(a, b) ==
  IF a = 0 THEN b
  ELSE IF b = 0 THEN a
  ELSE (((a % 2) + (b % 2)) % 2) + (2 * BitXor(a \div 2, b \div 2))

HasBit(x, bit) == (x \div bit) % 2 = 1

\* the leading n elements of s (all of s when it is shorter)
Prefix(s, n) == SubSeq(s, 1, Min(Len(s), n))

\* limb-wise sum of two 64-bit words, modulo 2^64
Add64(x, y) ==
  LET s0 == x[1] + y[1]
      s1 == x[2] + y[2] + (s0 \div W16)
      s2 == x[3] + y[3] + (s1 \div W16)
      s3 == x[4] + y[4] + (s2 \div W16)
  IN  <<s0 % W16, s1 % W16, s2 % W16, s3 % W16>>

\* x * 1099511628211 modulo 2^64; the prime is 2^40 + 435
MulPrime64(x) ==
  LET t0 == x[1] * 435
      t1 == (x[2] * 435) + (t0 \div W16)
      t2 == (x[3] * 435) + (t1 \div W16)
      t3 == (x[4] * 435) + (t2 \div W16)
      low == <<t0 % W16, t1 % W16, t2 % W16, t3 % W16>>
      shl40 == <<0, 0, (x[1] % 256) * 256,
                 (x[1] \div 256) + ((x[2] % 256) * 256)>>
  IN  Add64(low, shl40)

\* 14695981039346656037 = 0xCBF29CE484222325
FnvBasis == <<8997, 33826, 40164, 52210>>

Zero64 == <<0, 0, 0, 0>>

\* one round of the loop: h = (h ^ c) * prime
FnvRound(h, c) == MulPrime64(<<BitXor(h[1], c), h[2], h[3], h[4]>>)

\* the loop over the bytes of s; the comparison has each round's value
\* computed before the next round is entered
RECURSIVE FnvFold(_, _)
FnvFold(h, s) ==
  IF s = <<>> THEN h
  ELSE LET next == CHOOSE v \in {FnvRound(h, Head(s))} : TRUE
       IN  IF next = Zero64 THEN FnvFold(Zero64, Tail(s))
                            ELSE FnvFold(next, Tail(s))

\* fnv1a(s): s is the C string without its terminator, as byte codes
fnv1a(s) == FnvFold(FnvBasis, s)

\* slot_idx(hash, slots) = hash % slots
slot_idx(hash, slots) ==
  LET r3 == hash[4] % slots
      r2 == ((r3 * W16) + hash[3]) % slots
      r1 == ((r2 * W16) + hash[2]) % slots
  IN  ((r1 * W16) + hash[1]) % slots

\* strncmp(a, b, SPLINTER_KEY_MAX) == 0 on two C strings
KeyEq(a, b) == Prefix(a, SPLINTER_KEY_MAX) = Prefix(b, SPLINTER_KEY_MAX)


(***************************************************************************)
(* The mapped region and the processes                                     *)
(***************************************************************************)
VARIABLES
  H,     \* struct splinter_header
  S,     \* the slot table: slot index -> struct splinter_slot
  mem,   \* the bytes at VALUES + offset
  pr,    \* process -> the call it is in: arguments, locals, position, result
  G      \* history of the calls, per key (read by the properties only)

vars == <<H, S, mem, pr, G>>

Procs == DOMAIN pr

Slots == DOMAIN S

\* a 64-bit mask is the set of its bit positions
Bits64 == 0 .. 63

\* n * x modulo 2^64 for a small n, x a 64-bit word in limbs
RECURSIVE Times64(_, _)
Times64(n, x) == IF n = 0 THEN Zero64 ELSE Add64(x, Times64(n - 1, x))

\* splinter_create: total_sz, a size_t, stored to the uint32_t H->val_sz:
\* sizeof(header) + slots * sizeof(slot) + slots * max_value_sz, the low
\* 32 bits
TotalSz32(slots, max_value_sz) ==
  LET fixed == SizeofHeader + (slots * SizeofSlot)
      total == Add64(<<fixed % W16, fixed \div W16, 0, 0>>,
                     Times64(slots, <<max_value_sz % W16,
                                      max_value_sz \div W16, 0, 0>>))
  IN  total[1] + (W16 * total[2])

\* splinter_create: the header after creation
CreateH(slots, max_value_sz) ==
  [ magic |-> SPLINTER_MAGIC, version |-> SPLINTER_VER,
    slots |-> slots, max_val_sz |-> max_value_sz,
    val_sz |-> TotalSz32(slots, max_value_sz),
    val_brk |-> 0, epoch |-> 1, core_flags |-> 0, user_flags |-> 0,
    parse_failures |-> 0, last_failure_epoch |-> 0,
    bloom_watches |-> [b \in Bits64 |-> NoWatch],
    signal_groups |-> [g \in 0 .. (SPLINTER_MAX_GROUPS - 1) |-> 0] ]

\* splinter_create: the slot table after creation (the object is zero-filled
\* by ftruncate, so fields the loop does not touch are 0)
CreateS(slots, max_value_sz) ==
  [ i \in 0 .. (slots - 1) |->
      [ hash |-> Zero64, epoch |-> 0, val_off |-> i * max_value_sz,
        val_len |-> 0, type_flag |-> SPL_SLOT_DEFAULT_TYPE, user_flag |-> 0,
        watcher_mask |-> {}, ctime |-> 0, atime |-> 0, bloom |-> {},
        key |-> <<>>, embedding |-> [c \in 1 .. EmbedDim |-> 0] ] ]

\* the bytes of the window of VALUES the model keeps: zero-filled
CreateMem(top) == [a \in 0 .. (top - 1) |-> 0]

\* a splinter_slot_snapshot_t nothing was copied to
NoSnapshot ==
  [ hash |-> Zero64, epoch |-> 0, val_off |-> 0, val_len |-> 0, type_flag |-> 0,
    user_flag |-> 0, ctime |-> 0, atime |-> 0, key |-> <<>>,
    embedding |-> [c \in 1 .. EmbedDim |-> 0] ]

\* a process outside any call
IdleRec ==
  [ op |-> "none", pc |-> "idle", key |-> <<>>, val |-> <<>>, arg |-> 0,
    h |-> Zero64, idx |-> 0, i |-> 0, e |-> 0, n |-> 0, len |-> 0, off |-> 0,
    own |-> -1, ret |-> 0, err |-> NONE, out_sz |-> 0, buf |-> <<>>,
    bufp |-> FALSE, buf_sz |-> 0,
    last0 |-> NoValue, muts0 |-> 0, bound0 |-> FALSE,
    snap |-> NoSnapshot,
    start |-> 0, end |-> 0, cnt |-> 0,
    word |-> <<>>,    \* the 8 bytes an integer_op loaded
    mask |-> {},      \* the bits of a mask argument
    late |-> FALSE,   \* the deadline of the poll has passed
    done0 |-> 0,      \* writes of the key that had committed when the
                      \* poll sampled its start epoch
    missed |-> FALSE, \* the poll loaded the epoch before its deadline, after
                      \* a later write had committed, and saw no change
    due |-> <<>>,     \* the groups watching the key when the call was
                      \* entered, each with its signal count at that time
    epoch0 |-> 0,     \* H->epoch when the call was entered
    brk0 |-> 0,       \* H->val_brk when the call was entered
    mapped |-> TRUE,  \* the pointer H of the process is set
    rejected |-> FALSE, \* the last open of the process failed on the
                      \* magic or the version
    wm0 |-> {},       \* the watcher_mask of the slots of the key when the
                      \* call, or the watch_register directly before it,
                      \* was entered
    prev |-> [op |-> "none", key |-> <<>>, arg |-> 0, ret |-> 0,
              err |-> NONE] ]

\* the calls that write a slot
MutOps == {"set", "unset", "integer_op", "set_named_type", "set_embedding"}

\* no integer_op has been called yet
NoIntegerOp == [key |-> <<>>, op |-> -1, x |-> <<>>, m |-> <<>>, off |-> 0]

\* the history before any call, for the keys ks
NoHistory(ks) ==
  [ issued |-> [k \in ks |-> {}],    \* the values passed to set(k, ..) so far
    last |-> [k \in ks |-> NoValue],     \* the value of the set(k, ..) that returned
                                     \* success with no writing call on k begun
                                     \* since or under way
    muts |-> [k \in ks |-> 0],       \* writing calls on k begun so far
    bound |-> [k \in ks |-> FALSE],  \* a set(k, ..) returned success and no
                                     \* unset(k) has begun since
    incs |-> [k \in ks |-> 0],       \* integer_op(k, INC, ..) calls that
                                     \* returned success
    iop |-> NoIntegerOp,             \* the last integer_op called and what
                                     \* it found
    done |-> [k \in ks |-> 0],       \* set, unset and integer_op calls on k
                                     \* that have released the slot epoch
    labels |-> [k \in ks |-> {}],    \* the bloom bits set_label(k, ..) has set
                                     \* with success, no unset(k) begun since
    watches |-> [k \in ks |-> {}],   \* the groups watch_register(k, ..) has
                                     \* set with success, no unset(k) since
    kept |-> <<>>,                   \* what the slots stored when the last
                                     \* purge was called
    vecs |-> [k \in ks |-> {}] ]     \* the vectors passed to
                                     \* set_embedding(k, ..) so far

\* a writing call on k begins
Begin(k) == [G EXCEPT !.last[k] = NoValue, !.muts[k] = @ + 1]

\* a writing call on k by another process than p is under way
Busy(p, k) ==
  \E q \in Procs \ {p} :
     pr[q].op \in MutOps /\ pr[q].key = k /\ pr[q].pc \notin {"idle", "done"}

\* the groups that watch key k: registered on it, or mapped to one of its
\* labels
Watching(k) ==
  IF k \in DOMAIN G.labels
    THEN G.watches[k]
         \cup {g \in DOMAIN H.signal_groups :
                 \E b \in G.labels[k] : H.bloom_watches[b] = g}
    ELSE {}

\* p may enter a call
CanCall(p) == pr[p].pc \in {"idle", "done"}

\* p has issued fewer than n calls
Budget(p, n) == pr[p].cnt < n

\* the record of p entering call op on key k: the locals are fresh, the hash
\* and the first probe index are computed, the previous call is remembered
Enter(r, op, k, pc) ==
  [ IdleRec EXCEPT
      !.op = op, !.pc = pc, !.key = k,
      !.h = fnv1a(k), !.idx = slot_idx(fnv1a(k), H.slots),
      !.cnt = r.cnt + 1, !.epoch0 = H.epoch,
      !.mapped = r.mapped, !.rejected = r.rejected, !.brk0 = H.val_brk,
      !.due = [g \in Watching(k) |-> H.signal_groups[g]],
      !.prev = [op |-> r.op, key |-> r.key, arg |-> r.arg, ret |-> r.ret,
                err |-> r.err] ]

\* the record of p returning ret with errno err: locals are dropped, the
\* outputs (out_sz, buf, the epoch samples) stay
Leave(r, ret, err) ==
  [ r EXCEPT !.pc = "done", !.ret = ret, !.err = err,
             !.i = 0, !.e = 0, !.n = 0, !.len = 0, !.off = 0, !.own = -1,
             !.h = Zero64, !.idx = 0, !.word = <<>> ]

\* the slot the probe loop of p is at: &S[(idx + i) % H->slots]
At(p) == (pr[p].idx + pr[p].i) % H.slots

\* the probe loop of p moves to its next position
Advance(p) == pr' = [pr EXCEPT ![p].pc = pr[p].op \o "_probe", ![p].i = @ + 1]

\* the first step of every keyed probe loop: bound check and load of hash.
\* found: the pc when hash == h; onEmpty: the pc when hash == 0 ("" = skip)
ProbeStep(p, onEmpty, missRet, missErr) ==
  IF pr[p].i >= H.slots
    THEN pr' = [pr EXCEPT ![p] = Leave(@, missRet, missErr)]
    ELSE LET sh == S[At(p)].hash IN
         IF sh = Zero64 /\ onEmpty # ""
           THEN pr' = [pr EXCEPT ![p].pc = onEmpty]
         ELSE IF sh = pr[p].h
           THEN pr' = [pr EXCEPT ![p].pc = pr[p].op \o "_key"]
         ELSE Advance(p)

\* the second step: strncmp(slot->key, key, SPLINTER_KEY_MAX) == 0
KeyStep(p, found) ==
  IF KeyEq(S[At(p)].key, pr[p].key)
    THEN pr' = [pr EXCEPT ![p].pc = found]
    ELSE Advance(p)

(***************************************************************************)
(* splinter_config_test, splinter_pulse_watchers                           *)
(***************************************************************************)
splinter_config_test(mask) == HasBit(H.core_flags, mask)

\* how often group g is pulsed for one write of slot s: once for its bit in
\* watcher_mask, once for every bloom bit of the slot mapped to g
PulseCount(s, g) ==
  (IF g \in S[s].watcher_mask THEN 1 ELSE 0)
  + Cardinality({b \in S[s].bloom : H.bloom_watches[b] = g})

splinter_pulse_watchers(s) ==
  [g \in DOMAIN H.signal_groups |-> H.signal_groups[g] + PulseCount(s, g)]

(***************************************************************************)
(* splinter_set                                                            *)
(***************************************************************************)
\* the entry of splinter_set without the test of len
CallSetUnchecked(p, k, v) ==
  /\ CanCall(p)
  /\ pr' = [pr EXCEPT ![p] =
       IF ~pr[p].mapped
         THEN Leave([Enter(@, "set", k, "done") EXCEPT !.val = v], -1, NONE)
         ELSE [Enter(@, "set", k, "set_probe") EXCEPT !.val = v]]
  /\ G' = [Begin(k) EXCEPT !.issued[k] = @ \cup {v}]
  /\ UNCHANGED <<H, S, mem>>

\* entry: the argument checks, fnv1a, slot_idx
CallSet(p, k, v) ==
  /\ CanCall(p)
  /\ pr' = [pr EXCEPT ![p] =
       IF ~pr[p].mapped \/ Len(v) = 0 \/ Len(v) > H.max_val_sz
         THEN Leave([Enter(@, "set", k, "done") EXCEPT !.val = v], -1, NONE)
         ELSE [Enter(@, "set", k, "set_probe") EXCEPT !.val = v]]
  /\ G' = [Begin(k) EXCEPT !.issued[k] = @ \cup {v}]
  /\ UNCHANGED <<H, S, mem>>

\* for (i < H->slots): load slot->hash; slot_hash == 0 accepts the slot
SetProbe(p) ==
  /\ pr[p].pc = "set_probe"
  /\ ProbeStep(p, "set_epoch", -1, NONE)
  /\ UNCHANGED <<H, S, mem, G>>

\* slot_hash == h && strncmp(slot->key, key, SPLINTER_KEY_MAX) == 0
SetKey(p) ==
  /\ pr[p].pc = "set_key"
  /\ KeyStep(p, "set_epoch")
  /\ UNCHANGED <<H, S, mem, G>>

\* e = load(slot->epoch); if (e & 1) continue
SetEpoch(p) ==
  /\ pr[p].pc = "set_epoch"
  /\ IF S[At(p)].epoch % 2 = 1
       THEN Advance(p)
       ELSE pr' = [pr EXCEPT ![p].pc = "set_cas", ![p].e = S[At(p)].epoch]
  /\ UNCHANGED <<H, S, mem, G>>

\* compare_exchange_weak(&slot->epoch, &e, e + 1), else continue
SetCas(p) ==
  /\ pr[p].pc = "set_cas"
  /\ IF S[At(p)].epoch = pr[p].e
       THEN /\ S' = [S EXCEPT ![At(p)].epoch = pr[p].e + 1]
            /\ pr' = [pr EXCEPT ![p].pc = "set_check", ![p].own = At(p)]
       ELSE /\ Advance(p)
            /\ UNCHANGED S
  /\ UNCHANGED <<H, mem, G>>

\* the weak compare-exchange may fail although the epoch is as expected
SetCasSpurious(p) ==
  /\ pr[p].pc = "set_cas"
  /\ S[At(p)].epoch = pr[p].e
  /\ Advance(p)
  /\ UNCHANGED <<H, S, mem, G>>

\* val_off >= arena_sz || val_off + len > arena_sz
SetCheck(p) ==
  /\ pr[p].pc = "set_check"
  /\ LET off == S[At(p)].val_off
         len == Len(pr[p].val) IN
     \* arena_sz = slots * max_val_sz in size_t: x >= arena_sz is written
     \* x / max_val_sz >= slots, x + len > arena_sz as x + len - 1 >= arena_sz
     pr' = [pr EXCEPT ![p].off = off,
                      ![p].pc = IF \/ off \div H.max_val_sz >= H.slots
                                   \/ (off + (len - 1)) \div H.max_val_sz
                                        >= H.slots
                                  THEN "set_abort" ELSE "set_flags"]
  /\ UNCHANGED <<H, S, mem, G>>

\* the failed check: fetch_add(&slot->epoch, 1); return -1
SetAbort(p) ==
  /\ pr[p].pc = "set_abort"
  /\ S' = [S EXCEPT ![At(p)].epoch = @ + 1]
  /\ pr' = [pr EXCEPT ![p] = Leave(@, -1, NONE)]
  /\ UNCHANGED <<H, mem, G>>

\* splinter_config_test(H, SPL_SYS_AUTO_SCRUB); arg keeps the bits the set
\* has read as set
SetFlags(p) ==
  /\ pr[p].pc = "set_flags"
  /\ pr' = [pr EXCEPT ![p] =
       IF splinter_config_test(SPL_SYS_AUTO_SCRUB)
         THEN [@ EXCEPT !.pc = "set_flags2", !.arg = SPL_SYS_AUTO_SCRUB]
         ELSE [@ EXCEPT !.pc = "set_copy"]]
  /\ UNCHANGED <<H, S, mem, G>>

\* the second test with a hybrid scrub of len bytes only, not rounded up
SetFlags2Unrounded(p) ==
  /\ pr[p].pc = "set_flags2"
  /\ LET len == Len(pr[p].val)
         hybrid == splinter_config_test(SPL_SYS_HYBRID_SCRUB) IN
     pr' = [pr EXCEPT ![p].pc = "set_scrub",
                      ![p].arg = IF hybrid THEN @ + SPL_SYS_HYBRID_SCRUB ELSE @,
                      ![p].len = IF hybrid THEN len ELSE H.max_val_sz]
  /\ UNCHANGED <<H, S, mem, G>>

\* splinter_config_test(H, SPL_SYS_HYBRID_SCRUB): the length to zero,
\* (len + 63) & ~63 capped by max_val_sz, or max_val_sz
SetFlags2(p) ==
  /\ pr[p].pc = "set_flags2"
  /\ LET len == Len(pr[p].val)
         rounded == ((len + 63) \div 64) * 64
         hybrid == splinter_config_test(SPL_SYS_HYBRID_SCRUB) IN
     pr' = [pr EXCEPT ![p].pc = "set_scrub",
                      ![p].arg = IF hybrid THEN @ + SPL_SYS_HYBRID_SCRUB ELSE @,
                      ![p].len = IF hybrid THEN Min(rounded, H.max_val_sz)
                                           ELSE H.max_val_sz]
  /\ UNCHANGED <<H, S, mem, G>>

\* memset(dst, 0, scrub_len)
SetScrub(p) ==
  /\ pr[p].pc = "set_scrub"
  /\ mem' = [a \in DOMAIN mem |->
               IF a >= pr[p].off /\ a < pr[p].off + pr[p].len THEN 0 ELSE mem[a]]
  /\ pr' = [pr EXCEPT ![p].pc = "set_copy", ![p].len = 0]
  /\ UNCHANGED <<H, S, G>>

\* memcpy(dst, val, len), one byte a step
SetCopy(p) ==
  /\ pr[p].pc = "set_copy"
  /\ mem' = [mem EXCEPT ![pr[p].off + pr[p].n] = pr[p].val[pr[p].n + 1]]
  /\ pr' = [pr EXCEPT ![p].n = @ + 1,
                      ![p].pc = IF pr[p].n + 1 = Len(pr[p].val)
                                  THEN "set_len" ELSE "set_copy"]
  /\ UNCHANGED <<H, S, G>>

\* store(&slot->val_len, len)
SetLen(p) ==
  /\ pr[p].pc = "set_len"
  /\ S' = [S EXCEPT ![At(p)].val_len = Len(pr[p].val)]
  /\ pr' = [pr EXCEPT ![p].pc = "set_key0"]
  /\ UNCHANGED <<H, mem, G>>

\* slot->key[0] = '\0'
SetKey0(p) ==
  /\ pr[p].pc = "set_key0"
  /\ S' = [S EXCEPT ![At(p)].key = <<>>]
  /\ pr' = [pr EXCEPT ![p].pc = "set_strncpy"]
  /\ UNCHANGED <<H, mem, G>>

\* the same store in a build that drops it as dead before the strncpy
SetKey0Elided(p) ==
  /\ pr[p].pc = "set_key0"
  /\ pr' = [pr EXCEPT ![p].pc = "set_strncpy"]
  /\ UNCHANGED <<H, S, mem, G>>

\* strncpy(slot->key, key, SPLINTER_KEY_MAX - 1); key[SPLINTER_KEY_MAX - 1] = 0
SetStrncpy(p) ==
  /\ pr[p].pc = "set_strncpy"
  /\ S' = [S EXCEPT ![At(p)].key = Prefix(pr[p].key, SPLINTER_KEY_MAX - 1)]
  /\ pr' = [pr EXCEPT ![p].pc = "set_hash"]
  /\ UNCHANGED <<H, mem, G>>

\* store(&slot->hash, h)
SetHash(p) ==
  /\ pr[p].pc = "set_hash"
  /\ S' = [S EXCEPT ![At(p)].hash = pr[p].h]
  /\ pr' = [pr EXCEPT ![p].pc = "set_release"]
  /\ UNCHANGED <<H, mem, G>>

\* fetch_add(&slot->epoch, 1)
SetRelease(p) ==
  /\ pr[p].pc = "set_release"
  /\ S' = [S EXCEPT ![At(p)].epoch = @ + 1]
  /\ pr' = [pr EXCEPT ![p].pc = "set_pulse", ![p].own = -1]
  /\ G' = [G EXCEPT !.done[pr[p].key] = @ + 1]
  /\ UNCHANGED <<H, mem>>

\* splinter_pulse_watchers(slot)
SetPulse(p) ==
  /\ pr[p].pc = "set_pulse"
  /\ H' = [H EXCEPT !.signal_groups = splinter_pulse_watchers(At(p))]
  /\ pr' = [pr EXCEPT ![p].pc = "set_global"]
  /\ UNCHANGED <<S, mem, G>>

\* fetch_add(&H->epoch, 1); return 0
SetGlobal(p) ==
  /\ pr[p].pc = "set_global"
  /\ H' = [H EXCEPT !.epoch = @ + 1]
  /\ pr' = [pr EXCEPT ![p] = Leave(@, 0, NONE)]
  /\ G' = [G EXCEPT !.last[pr[p].key] =
                       IF Busy(p, pr[p].key) THEN NoValue ELSE pr[p].val,
                     !.bound[pr[p].key] = TRUE]
  /\ UNCHANGED <<S, mem>>

\* the steps of splinter_set under a strong compare-exchange and a build
\* that keeps every store
SetStep(p) ==
  \/ SetProbe(p) \/ SetKey(p) \/ SetEpoch(p) \/ SetCas(p) \/ SetCheck(p)
  \/ SetFlags(p) \/ SetCopy(p) \/ SetLen(p) \/ SetKey0(p) \/ SetStrncpy(p)
  \/ SetHash(p) \/ SetRelease(p) \/ SetPulse(p) \/ SetGlobal(p)

\* the steps taken only when auto-scrub is on
SetScrubStep(p) == SetFlags2(p) \/ SetScrub(p)

(***************************************************************************)
(* splinter_get                                                            *)
(***************************************************************************)
\* entry; bufp: buf is not NULL, sz: buf_sz; out_sz is not NULL
CallGet(p, k, bufp, sz) ==
  /\ CanCall(p)
  /\ pr' = [pr EXCEPT ![p] =
       LET r == [Enter(@, "get", k, "get_probe") EXCEPT
                   !.bufp = bufp, !.buf_sz = sz,
                   !.last0 = G.last[k], !.muts0 = G.muts[k],
                   !.bound0 = G.bound[k]]
       IN IF pr[p].mapped THEN r ELSE Leave(r, -1, NONE)]
  /\ UNCHANGED <<H, S, mem, G>>

\* for (i < H->slots): load slot->hash == h; falling out returns -1
GetProbe(p) ==
  /\ pr[p].pc = "get_probe"
  /\ ProbeStep(p, "", -1, NOTFOUND)
  /\ UNCHANGED <<H, S, mem, G>>

GetKey(p) ==
  /\ pr[p].pc = "get_key"
  /\ KeyStep(p, "get_start")
  /\ UNCHANGED <<H, S, mem, G>>

\* start = load(slot->epoch); if (start & 1) EAGAIN
GetStart(p) ==
  /\ pr[p].pc = "get_start"
  /\ pr' = [pr EXCEPT ![p] =
       IF S[At(p)].epoch % 2 = 1
         THEN Leave([@ EXCEPT !.start = S[At(p)].epoch], -1, EAGAIN)
         ELSE [@ EXCEPT !.start = S[At(p)].epoch, !.pc = "get_len"]]
  /\ UNCHANGED <<H, S, mem, G>>

\* the load of the length without the test of buf_sz
GetLenUnchecked(p) ==
  /\ pr[p].pc = "get_len"
  /\ LET len == S[At(p)].val_len IN
     pr' = [pr EXCEPT ![p] =
       [@ EXCEPT !.out_sz = len, !.len = len,
                 !.pc = IF pr[p].bufp THEN "get_off" ELSE "get_end"]]
  /\ UNCHANGED <<H, S, mem, G>>

\* len = load(slot->val_len); *out_sz = len; buf_sz < len is EMSGSIZE
GetLen(p) ==
  /\ pr[p].pc = "get_len"
  /\ LET len == S[At(p)].val_len IN
     pr' = [pr EXCEPT ![p] =
       IF pr[p].bufp /\ pr[p].buf_sz < len
         THEN Leave([@ EXCEPT !.out_sz = len], -1, EMSGSIZE)
         ELSE [@ EXCEPT !.out_sz = len, !.len = len,
                        !.pc = IF pr[p].bufp THEN "get_off" ELSE "get_end"]]
  /\ UNCHANGED <<H, S, mem, G>>

\* VALUES + slot->val_off
GetOff(p) ==
  /\ pr[p].pc = "get_off"
  /\ pr' = [pr EXCEPT ![p].off = S[At(p)].val_off,
                      ![p].pc = IF pr[p].len = 0 THEN "get_end" ELSE "get_copy"]
  /\ UNCHANGED <<H, S, mem, G>>

\* memcpy(buf, VALUES + slot->val_off, len), one byte a step
GetCopy(p) ==
  /\ pr[p].pc = "get_copy"
  /\ pr' = [pr EXCEPT ![p].buf = Append(@, mem[pr[p].off + pr[p].n]),
                      ![p].n = @ + 1,
                      ![p].pc = IF pr[p].n + 1 = pr[p].len
                                  THEN "get_end" ELSE "get_copy"]
  /\ UNCHANGED <<H, S, mem, G>>

\* end = load(slot->epoch); start == end && !(end & 1) is success
GetEnd(p) ==
  /\ pr[p].pc = "get_end"
  /\ LET end == S[At(p)].epoch IN
     pr' = [pr EXCEPT ![p] =
       IF pr[p].start = end /\ end % 2 = 0
         THEN Leave([@ EXCEPT !.end = end], 0, NONE)
         ELSE Leave([@ EXCEPT !.end = end], -1, EAGAIN)]
  /\ UNCHANGED <<H, S, mem, G>>

GetStep(p) ==
  \/ GetProbe(p) \/ GetKey(p) \/ GetStart(p) \/ GetLen(p) \/ GetOff(p)
  \/ GetCopy(p) \/ GetEnd(p)

(***************************************************************************)
(* splinter_unset                                                          *)
(***************************************************************************)
CallUnset(p, k) ==
  /\ CanCall(p)
  /\ pr' = [pr EXCEPT ![p] = Enter(@, "unset", k, "unset_probe")]
  /\ G' = [Begin(k) EXCEPT !.bound[k] = FALSE,
                           !.labels[k] = {}, !.watches[k] = {}]
  /\ UNCHANGED <<H, S, mem>>

UnsetProbe(p) ==
  /\ pr[p].pc = "unset_probe"
  /\ ProbeStep(p, "", -1, NOTFOUND)
  /\ UNCHANGED <<H, S, mem, G>>

UnsetKey(p) ==
  /\ pr[p].pc = "unset_key"
  /\ KeyStep(p, "unset_start")
  /\ UNCHANGED <<H, S, mem, G>>

\* start_epoch = load(slot->epoch); if (start_epoch & 1) EAGAIN.  The epoch
\* is only read: no compare-exchange follows
UnsetStart(p) ==
  /\ pr[p].pc = "unset_start"
  /\ pr' = [pr EXCEPT ![p] =
       IF S[At(p)].epoch % 2 = 1
         THEN Leave(@, -1, EAGAIN)
         ELSE [@ EXCEPT !.pc = "unset_len"]]
  /\ UNCHANGED <<H, S, mem, G>>

\* ret = load(slot->val_len)
UnsetLen(p) ==
  /\ pr[p].pc = "unset_len"
  /\ pr' = [pr EXCEPT ![p].len = S[At(p)].val_len, ![p].pc = "unset_hash"]
  /\ UNCHANGED <<H, S, mem, G>>

\* store(&slot->hash, 0)
UnsetHash(p) ==
  /\ pr[p].pc = "unset_hash"
  /\ S' = [S EXCEPT ![At(p)].hash = Zero64]
  /\ pr' = [pr EXCEPT ![p].pc = "unset_flags"]
  /\ UNCHANGED <<H, mem, G>>

\* splinter_config_test(H, SPL_SYS_AUTO_SCRUB)
UnsetFlags(p) ==
  /\ pr[p].pc = "unset_flags"
  /\ pr' = [pr EXCEPT ![p].pc = IF splinter_config_test(SPL_SYS_AUTO_SCRUB)
                                  THEN "unset_scrub" ELSE "unset_key0"]
  /\ UNCHANGED <<H, S, mem, G>>

\* memset(VALUES + slot->val_off, 0, H->max_val_sz); memset(slot->key, 0, ..)
UnsetScrub(p) ==
  /\ pr[p].pc = "unset_scrub"
  /\ LET off == S[At(p)].val_off IN
     mem' = [a \in DOMAIN mem |->
               IF a >= off /\ a < off + H.max_val_sz THEN 0 ELSE mem[a]]
  /\ S' = [S EXCEPT ![At(p)].key = <<>>]
  /\ pr' = [pr EXCEPT ![p].pc = "unset_type0"]
  /\ UNCHANGED <<H, G>>

\* slot->key[0] = '\0'
UnsetKey0(p) ==
  /\ pr[p].pc = "unset_key0"
  /\ S' = [S EXCEPT ![At(p)].key = <<>>]
  /\ pr' = [pr EXCEPT ![p].pc = "unset_type0"]
  /\ UNCHANGED <<H, mem, G>>

\* store(&slot->type_flag, 0)
UnsetType0(p) ==
  /\ pr[p].pc = "unset_type0"
  /\ S' = [S EXCEPT ![At(p)].type_flag = 0]
  /\ pr' = [pr EXCEPT ![p].pc = "unset_type1"]
  /\ UNCHANGED <<H, mem, G>>

\* fetch_or(&slot->type_flag, SPL_SLOT_DEFAULT_TYPE) on the zeroed flag
UnsetType1(p) ==
  /\ pr[p].pc = "unset_type1"
  /\ S' = [S EXCEPT ![At(p)].type_flag =
             IF HasBit(@, SPL_SLOT_DEFAULT_TYPE) THEN @ ELSE @ + SPL_SLOT_DEFAULT_TYPE]
  /\ pr' = [pr EXCEPT ![p].pc = "unset_epoch0"]
  /\ UNCHANGED <<H, mem, G>>

\* store(&slot->epoch, 0)
UnsetEpoch0(p) ==
  /\ pr[p].pc = "unset_epoch0"
  /\ S' = [S EXCEPT ![At(p)].epoch = 0]
  /\ pr' = [pr EXCEPT ![p].pc = "unset_vlen"]
  /\ UNCHANGED <<H, mem, G>>

\* store(&slot->val_len, 0)
UnsetVlen(p) ==
  /\ pr[p].pc = "unset_vlen"
  /\ S' = [S EXCEPT ![At(p)].val_len = 0]
  /\ pr' = [pr EXCEPT ![p].pc = "unset_times"]
  /\ UNCHANGED <<H, mem, G>>

\* store 0 to ctime, atime, user_flag
UnsetTimes(p) ==
  /\ pr[p].pc = "unset_times"
  /\ S' = [S EXCEPT ![At(p)].ctime = 0, ![At(p)].atime = 0, ![At(p)].user_flag = 0]
  /\ pr' = [pr EXCEPT ![p].pc = "unset_watch"]
  /\ UNCHANGED <<H, mem, G>>

\* store(&slot->watcher_mask, 0)
UnsetWatch(p) ==
  /\ pr[p].pc = "unset_watch"
  /\ S' = [S EXCEPT ![At(p)].watcher_mask = {}]
  /\ pr' = [pr EXCEPT ![p].pc = "unset_bloom"]
  /\ UNCHANGED <<H, mem, G>>

\* store(&slot->bloom, 0)
UnsetBloom(p) ==
  /\ pr[p].pc = "unset_bloom"
  /\ S' = [S EXCEPT ![At(p)].bloom = {}]
  /\ pr' = [pr EXCEPT ![p].pc = "unset_release"]
  /\ UNCHANGED <<H, mem, G>>

\* fetch_add(&slot->epoch, 2); return ret
UnsetRelease(p) ==
  /\ pr[p].pc = "unset_release"
  /\ S' = [S EXCEPT ![At(p)].epoch = @ + 2]
  /\ pr' = [pr EXCEPT ![p] = Leave(@, pr[p].len, NONE)]
  /\ G' = [G EXCEPT !.done[pr[p].key] = @ + 1]
  /\ UNCHANGED <<H, mem>>

\* the steps of splinter_unset with auto-scrub off
UnsetStep(p) ==
  \/ UnsetProbe(p) \/ UnsetKey(p) \/ UnsetStart(p) \/ UnsetLen(p)
  \/ UnsetHash(p) \/ UnsetFlags(p) \/ UnsetKey0(p) \/ UnsetType0(p)
  \/ UnsetType1(p) \/ UnsetEpoch0(p) \/ UnsetVlen(p) \/ UnsetTimes(p)
  \/ UnsetWatch(p) \/ UnsetBloom(p) \/ UnsetRelease(p)

(***************************************************************************)
(* splinter_get_slot_snapshot                                              *)
(***************************************************************************)
CallSnapshot(p, k) ==
  /\ CanCall(p)
  /\ pr' = [pr EXCEPT ![p] = Enter(@, "snapshot", k, "snapshot_probe")]
  /\ UNCHANGED <<H, S, mem, G>>

SnapshotProbe(p) ==
  /\ pr[p].pc = "snapshot_probe"
  /\ ProbeStep(p, "", -1, NOTFOUND)
  /\ UNCHANGED <<H, S, mem, G>>

\* on a match start = 0, end = 0 and the do-while is entered
SnapshotKey(p) ==
  /\ pr[p].pc = "snapshot_key"
  /\ KeyStep(p, "snapshot_start")
  /\ UNCHANGED <<H, S, mem, G>>

\* start = load(slot->epoch); if (start & 1) continue: the continue jumps
\* to the loop condition, while (start != end), with end as it was left
SnapshotStart(p) ==
  /\ pr[p].pc = "snapshot_start"
  /\ LET start == S[At(p)].epoch IN
     pr' = [pr EXCEPT ![p] =
       IF start % 2 = 1
         THEN IF start # pr[p].end
                THEN [@ EXCEPT !.start = start]
                ELSE Leave([@ EXCEPT !.start = start], 0, NONE)
         ELSE [@ EXCEPT !.start = start, !.pc = "snapshot_off",
                        !.snap.hash = pr[p].h, !.snap.epoch = start]]
  /\ UNCHANGED <<H, S, mem, G>>

\* snapshot->val_off = slot->val_off
SnapshotOff(p) ==
  /\ pr[p].pc = "snapshot_off"
  /\ pr' = [pr EXCEPT ![p].snap.val_off = S[At(p)].val_off, ![p].pc = "snapshot_len"]
  /\ UNCHANGED <<H, S, mem, G>>

\* snapshot->val_len = load(slot->val_len)
SnapshotLen(p) ==
  /\ pr[p].pc = "snapshot_len"
  /\ pr' = [pr EXCEPT ![p].snap.val_len = S[At(p)].val_len, ![p].pc = "snapshot_type"]
  /\ UNCHANGED <<H, S, mem, G>>

\* snapshot->type_flag = load(slot->type_flag)
SnapshotType(p) ==
  /\ pr[p].pc = "snapshot_type"
  /\ pr' = [pr EXCEPT ![p].snap.type_flag = S[At(p)].type_flag, ![p].pc = "snapshot_meta"]
  /\ UNCHANGED <<H, S, mem, G>>

\* the loads of user_flag, ctime and atime
SnapshotMeta(p) ==
  /\ pr[p].pc = "snapshot_meta"
  /\ pr' = [pr EXCEPT ![p].snap.user_flag = S[At(p)].user_flag,
                      ![p].snap.ctime = S[At(p)].ctime,
                      ![p].snap.atime = S[At(p)].atime,
                      ![p].pc = "snapshot_keycopy"]
  /\ UNCHANGED <<H, S, mem, G>>

\* strncpy(snapshot->key, slot->key, SPLINTER_KEY_MAX) and the memcpy of
\* the embedding
SnapshotKeyCopy(p) ==
  /\ pr[p].pc = "snapshot_keycopy"
  /\ pr' = [pr EXCEPT ![p].snap.key = Prefix(S[At(p)].key, SPLINTER_KEY_MAX),
                      ![p].snap.embedding = S[At(p)].embedding,
                      ![p].pc = "snapshot_end"]
  /\ UNCHANGED <<H, S, mem, G>>

\* end = load(slot->epoch); while (start != end)
SnapshotEnd(p) ==
  /\ pr[p].pc = "snapshot_end"
  /\ LET end == S[At(p)].epoch IN
     pr' = [pr EXCEPT ![p] =
       IF pr[p].start # end
         THEN [@ EXCEPT !.end = end, !.pc = "snapshot_start"]
         ELSE Leave([@ EXCEPT !.end = end], 0, NONE)]
  /\ UNCHANGED <<H, S, mem, G>>

SnapshotStep(p) ==
  \/ SnapshotProbe(p) \/ SnapshotKey(p) \/ SnapshotStart(p) \/ SnapshotOff(p)
  \/ SnapshotLen(p) \/ SnapshotType(p) \/ SnapshotMeta(p)
  \/ SnapshotKeyCopy(p) \/ SnapshotEnd(p)

(***************************************************************************)
(* splinter_set_named_type                                                 *)
(***************************************************************************)
\* the value of byte c as a digit of strtoull; 99 when it is none
DigitVal(c) ==
  IF c >= 48 /\ c <= 57 THEN c - 48
  ELSE IF c >= 97 /\ c <= 122 THEN (c - 97) + 10
  ELSE IF c >= 65 /\ c <= 90 THEN (c - 65) + 10
  ELSE 99

\* the digits of s from position i on, in the given base, up to the first
\* byte that is no digit of it
RECURSIVE ParseDigits(_, _, _, _)
ParseDigits(s, i, base, acc) ==
  IF i > Len(s) \/ DigitVal(s[i]) >= base
    THEN acc
    ELSE ParseDigits(s, i + 1, base, (acc * base) + DigitVal(s[i]))

\* strtoull(tmp_buf, NULL, 0) of a buffer whose first byte is a digit: base
\* 16 after "0x" or "0X", base 8 after "0", base 10 otherwise
strtoull(s) ==
  IF Len(s) >= 3 /\ s[1] = 48 /\ s[2] \in {120, 88} /\ DigitVal(s[3]) < 16
    THEN ParseDigits(s, 3, 16, 0)
  ELSE IF s[1] = 48
    THEN ParseDigits(s, 1, 8, 0)
  ELSE ParseDigits(s, 1, 10, 0)

\* the n low bytes of v in memory order (least significant byte first)
RECURSIVE Bytes(_, _)
Bytes(v, n) == IF n = 0 THEN <<>> ELSE <<v % 256>> \o Bytes(v \div 256, n - 1)

\* the n bytes of VALUES from offset off on
Load(off, n) == [i \in 1 .. n |-> mem[off + (i - 1)]]

\* converted_val as the 8 bytes stored at new_ptr: the parsed number when
\* the old value starts with a digit, else the old bytes padded with zeros
ConvertedVal(old) ==
  IF Len(old) > 0 /\ old[1] >= 48 /\ old[1] <= 57
    THEN Bytes(strtoull(old), 8)
    ELSE old \o [i \in 1 .. (8 - Len(old)) |-> 0]

\* entry: fnv1a, slot_idx
CallSetNamedType(p, k, mask) ==
  /\ CanCall(p)
  /\ pr' = [pr EXCEPT ![p] =
       [Enter(@, "set_named_type", k, "set_named_type_probe") EXCEPT
          !.arg = mask]]
  /\ G' = Begin(k)
  /\ UNCHANGED <<H, S, mem>>

\* i < H->slots; load(&slot->hash) == h; ENOENT after the loop
TypeProbe(p) ==
  /\ pr[p].pc = "set_named_type_probe"
  /\ ProbeStep(p, "", -1, ENOENT)
  /\ UNCHANGED <<H, S, mem, G>>

TypeKey(p) ==
  /\ pr[p].pc = "set_named_type_key"
  /\ KeyStep(p, "set_named_type_epoch")
  /\ UNCHANGED <<H, S, mem, G>>

\* e = load(&slot->epoch); if (e & 1) EAGAIN
TypeEpoch(p) ==
  /\ pr[p].pc = "set_named_type_epoch"
  /\ pr' = [pr EXCEPT ![p] =
       IF S[At(p)].epoch % 2 = 1
         THEN Leave(@, -1, EAGAIN)
         ELSE [@ EXCEPT !.e = S[At(p)].epoch, !.pc = "set_named_type_cas"]]
  /\ UNCHANGED <<H, S, mem, G>>

\* compare_exchange_strong(&slot->epoch, &e, e + 1), else EAGAIN
TypeCas(p) ==
  /\ pr[p].pc = "set_named_type_cas"
  /\ IF S[At(p)].epoch = pr[p].e
       THEN /\ S' = [S EXCEPT ![At(p)].epoch = pr[p].e + 1]
            /\ pr' = [pr EXCEPT ![p].pc = "set_named_type_len",
                                ![p].own = At(p)]
       ELSE /\ pr' = [pr EXCEPT ![p] = Leave(@, -1, EAGAIN)]
            /\ UNCHANGED S
  /\ UNCHANGED <<H, mem, G>>

\* current_len = load(&slot->val_len); (mask & BIGUINT) && current_len < 8
TypeLen(p) ==
  /\ pr[p].pc = "set_named_type_len"
  /\ LET current_len == S[At(p)].val_len IN
     pr' = [pr EXCEPT ![p].len = current_len,
                      ![p].pc = IF HasBit(pr[p].arg, SPL_SLOT_TYPE_BIGUINT)
                                   /\ current_len < 8
                                  THEN "set_named_type_brk"
                                  ELSE "set_named_type_flag"]
  /\ UNCHANGED <<H, S, mem, G>>

\* new_off = fetch_add(&H->val_brk, 8); new_off + 8 > H->val_sz
TypeBrk(p) ==
  /\ pr[p].pc = "set_named_type_brk"
  /\ H' = [H EXCEPT !.val_brk = @ + 8]
  /\ pr' = [pr EXCEPT ![p].off = H.val_brk,
                      ![p].pc = IF H.val_brk + 8 > H.val_sz
                                  THEN "set_named_type_nomem"
                                  ELSE "set_named_type_convert"]
  /\ UNCHANGED <<S, mem, G>>

\* the failed bump: fetch_add(&slot->epoch, 1); ENOMEM
TypeNomem(p) ==
  /\ pr[p].pc = "set_named_type_nomem"
  /\ S' = [S EXCEPT ![At(p)].epoch = @ + 1]
  /\ pr' = [pr EXCEPT ![p] = Leave(@, -1, ENOMEM)]
  /\ UNCHANGED <<H, mem, G>>

\* old_ptr = VALUES + slot->val_off; converted_val from the old bytes
TypeConvert(p) ==
  /\ pr[p].pc = "set_named_type_convert"
  /\ pr' = [pr EXCEPT ![p].val =
                         ConvertedVal(Load(S[At(p)].val_off, pr[p].len)),
                      ![p].pc = "set_named_type_store"]
  /\ UNCHANGED <<H, S, mem, G>>

\* *new_ptr = converted_val, new_ptr = VALUES + new_off
TypeStore(p) ==
  /\ pr[p].pc = "set_named_type_store"
  /\ mem' = [a \in DOMAIN mem |->
               IF a >= pr[p].off /\ a < pr[p].off + 8
                 THEN pr[p].val[(a - pr[p].off) + 1] ELSE mem[a]]
  /\ pr' = [pr EXCEPT ![p].pc = "set_named_type_off"]
  /\ UNCHANGED <<H, S, G>>

\* slot->val_off = new_off
TypeOff(p) ==
  /\ pr[p].pc = "set_named_type_off"
  /\ S' = [S EXCEPT ![At(p)].val_off = pr[p].off]
  /\ pr' = [pr EXCEPT ![p].pc = "set_named_type_vlen"]
  /\ UNCHANGED <<H, mem, G>>

\* store(&slot->val_len, 8)
TypeVlen(p) ==
  /\ pr[p].pc = "set_named_type_vlen"
  /\ S' = [S EXCEPT ![At(p)].val_len = 8]
  /\ pr' = [pr EXCEPT ![p].pc = "set_named_type_flag"]
  /\ UNCHANGED <<H, mem, G>>

\* store(&slot->type_flag, mask): type_flag is an atomic_uint_least8_t and
\* mask a uint16_t, the store keeps the low 8 bits
TypeFlag(p) ==
  /\ pr[p].pc = "set_named_type_flag"
  /\ S' = [S EXCEPT ![At(p)].type_flag = pr[p].arg % 256]
  /\ pr' = [pr EXCEPT ![p].pc = "set_named_type_release"]
  /\ UNCHANGED <<H, mem, G>>

\* fetch_add(&slot->epoch, 1)
TypeRelease(p) ==
  /\ pr[p].pc = "set_named_type_release"
  /\ S' = [S EXCEPT ![At(p)].epoch = @ + 1]
  /\ pr' = [pr EXCEPT ![p].pc = "set_named_type_global", ![p].own = -1]
  /\ UNCHANGED <<H, mem, G>>

\* fetch_add(&H->epoch, 1); return 0
TypeGlobal(p) ==
  /\ pr[p].pc = "set_named_type_global"
  /\ H' = [H EXCEPT !.epoch = @ + 1]
  /\ pr' = [pr EXCEPT ![p] = Leave(@, 0, NONE)]
  /\ UNCHANGED <<S, mem, G>>

\* the steps of splinter_set_named_type while the bump stays below val_sz
\* and no other writer holds the slot
TypeStep(p) ==
  \/ TypeProbe(p) \/ TypeKey(p) \/ TypeEpoch(p) \/ TypeCas(p) \/ TypeLen(p)
  \/ TypeBrk(p) \/ TypeConvert(p) \/ TypeStore(p) \/ TypeOff(p)
  \/ TypeVlen(p) \/ TypeFlag(p) \/ TypeRelease(p) \/ TypeGlobal(p)

(***************************************************************************)
(* splinter_integer_op                                                     *)
(***************************************************************************)
RECURSIVE BitAnd(_, _)
BitAnd(a, b) ==
  IF a = 0 \/ b = 0 THEN 0
  ELSE ((a % 2) * (b % 2)) + (2 * BitAnd(a \div 2, b \div 2))

\* x + y + c on words of bytes, least significant byte first, the carry
\* out of the last byte dropped
RECURSIVE AddWords(_, _, _)
AddWords(x, y, c) ==
  IF x = <<>> THEN <<>>
  ELSE <<(Head(x) + Head(y) + c) % 256>>
       \o AddWords(Tail(x), Tail(y), (Head(x) + Head(y) + c) \div 256)

\* ~x
NotWord(x) == [i \in 1 .. Len(x) |-> 255 - x[i]]

\* the switch with the subtraction done without the borrow into the next
\* byte
IntegerOpNoBorrow(op, x, m) ==
  CASE op = SPL_OP_OR  -> [i \in 1 .. 8 |-> (x[i] + m[i]) - BitAnd(x[i], m[i])]
    [] op = SPL_OP_AND -> [i \in 1 .. 8 |-> BitAnd(x[i], m[i])]
    [] op = SPL_OP_XOR -> [i \in 1 .. 8 |-> BitXor(x[i], m[i])]
    [] op = SPL_OP_NOT -> NotWord(x)
    [] op = SPL_OP_INC -> AddWords(x, m, 0)
    [] op = SPL_OP_DEC -> [i \in 1 .. 8 |-> ((x[i] + 256) - m[i]) % 256]
    [] OTHER -> x

\* the switch of splinter_integer_op on *val and m64: the new *val
IntegerOp(op, x, m) ==
  CASE op = SPL_OP_OR  -> [i \in 1 .. 8 |-> (x[i] + m[i]) - BitAnd(x[i], m[i])]
    [] op = SPL_OP_AND -> [i \in 1 .. 8 |-> BitAnd(x[i], m[i])]
    [] op = SPL_OP_XOR -> [i \in 1 .. 8 |-> BitXor(x[i], m[i])]
    [] op = SPL_OP_NOT -> NotWord(x)
    [] op = SPL_OP_INC -> AddWords(x, m, 0)
    [] op = SPL_OP_DEC -> AddWords(x, NotWord(m), 1)
    [] OTHER -> x

\* the slots key k is bound to: hash and key both match
BoundSlots(k) == {s \in Slots : S[s].hash = fnv1a(k) /\ KeyEq(S[s].key, k)}

\* what an integer_op(k, op, m) finds when it is called: the 8 bytes and the
\* val_off of the slot bound to k
Held(k, op, m) ==
  IF BoundSlots(k) = {}
    THEN [NoIntegerOp EXCEPT !.key = k, !.op = op, !.m = m]
    ELSE LET s == CHOOSE t \in BoundSlots(k) : TRUE IN
         [key |-> k, op |-> op, x |-> Load(S[s].val_off, 8), m |-> m,
          off |-> S[s].val_off]

\* entry: fnv1a, slot_idx, memcpy(&m64, mask, 8); m is m64 as 8 bytes
CallIntegerOp(p, k, op, m) ==
  /\ CanCall(p)
  /\ pr' = [pr EXCEPT ![p] =
       [Enter(@, "integer_op", k, "integer_op_probe") EXCEPT
          !.arg = op, !.val = m]]
  /\ G' = [Begin(k) EXCEPT !.iop = Held(k, op, m)]
  /\ UNCHANGED <<H, S, mem>>

\* i < H->slots; load(&slot->hash) == h; ENOENT after the loop
IntProbe(p) ==
  /\ pr[p].pc = "integer_op_probe"
  /\ ProbeStep(p, "", -1, ENOENT)
  /\ UNCHANGED <<H, S, mem, G>>

IntKey(p) ==
  /\ pr[p].pc = "integer_op_key"
  /\ KeyStep(p, "integer_op_type")
  /\ UNCHANGED <<H, S, mem, G>>

\* uint8_t type = load(&slot->type_flag); !(type & BIGUINT) is EPROTOTYPE
IntType(p) ==
  /\ pr[p].pc = "integer_op_type"
  /\ pr' = [pr EXCEPT ![p] =
       IF HasBit(S[At(p)].type_flag % 256, SPL_SLOT_TYPE_BIGUINT)
         THEN [@ EXCEPT !.pc = "integer_op_epoch"]
         ELSE Leave(@, -1, EPROTOTYPE)]
  /\ UNCHANGED <<H, S, mem, G>>

\* e = load(&slot->epoch); if (e & 1) EAGAIN
IntEpoch(p) ==
  /\ pr[p].pc = "integer_op_epoch"
  /\ pr' = [pr EXCEPT ![p] =
       IF S[At(p)].epoch % 2 = 1
         THEN Leave(@, -1, EAGAIN)
         ELSE [@ EXCEPT !.e = S[At(p)].epoch, !.pc = "integer_op_cas"]]
  /\ UNCHANGED <<H, S, mem, G>>

\* compare_exchange replaced by a plain store of e + 1: the seqlock is taken
\* whatever the epoch has become
IntCasBlind(p) ==
  /\ pr[p].pc = "integer_op_cas"
  /\ S' = [S EXCEPT ![At(p)].epoch = pr[p].e + 1]
  /\ pr' = [pr EXCEPT ![p].pc = "integer_op_load", ![p].own = At(p)]
  /\ UNCHANGED <<H, mem, G>>

\* compare_exchange_strong(&slot->epoch, &e, e + 1), else EAGAIN
IntCas(p) ==
  /\ pr[p].pc = "integer_op_cas"
  /\ IF S[At(p)].epoch = pr[p].e
       THEN /\ S' = [S EXCEPT ![At(p)].epoch = pr[p].e + 1]
            /\ pr' = [pr EXCEPT ![p].pc = "integer_op_load", ![p].own = At(p)]
       ELSE /\ pr' = [pr EXCEPT ![p] = Leave(@, -1, EAGAIN)]
            /\ UNCHANGED S
  /\ UNCHANGED <<H, mem, G>>

\* val = VALUES + slot->val_off; the read of *val
IntLoad(p) ==
  /\ pr[p].pc = "integer_op_load"
  /\ pr' = [pr EXCEPT ![p].off = S[At(p)].val_off,
                      ![p].word = Load(S[At(p)].val_off, 8),
                      ![p].pc = "integer_op_store"]
  /\ UNCHANGED <<H, S, mem, G>>

\* the write of *val
IntStore(p) ==
  /\ pr[p].pc = "integer_op_store"
  /\ LET new == IntegerOp(pr[p].arg, pr[p].word, pr[p].val) IN
     mem' = [a \in DOMAIN mem |->
               IF a >= pr[p].off /\ a < pr[p].off + 8
                 THEN new[(a - pr[p].off) + 1] ELSE mem[a]]
  /\ pr' = [pr EXCEPT ![p].pc = "integer_op_release"]
  /\ UNCHANGED <<H, S, G>>

\* fetch_add(&slot->epoch, 1)
IntRelease(p) ==
  /\ pr[p].pc = "integer_op_release"
  /\ S' = [S EXCEPT ![At(p)].epoch = @ + 1]
  /\ pr' = [pr EXCEPT ![p].pc = "integer_op_global", ![p].own = -1]
  /\ G' = [G EXCEPT !.done[pr[p].key] = @ + 1]
  /\ UNCHANGED <<H, mem>>

\* fetch_add(&H->epoch, 1); return 0
IntGlobal(p) ==
  /\ pr[p].pc = "integer_op_global"
  /\ H' = [H EXCEPT !.epoch = @ + 1]
  /\ pr' = [pr EXCEPT ![p] = Leave(@, 0, NONE)]
  /\ G' = [G EXCEPT !.incs[pr[p].key] =
                       IF pr[p].arg = SPL_OP_INC THEN @ + 1 ELSE @]
  /\ UNCHANGED <<S, mem>>

IntStep(p) ==
  \/ IntProbe(p) \/ IntKey(p) \/ IntType(p) \/ IntEpoch(p) \/ IntCas(p)
  \/ IntLoad(p) \/ IntStore(p) \/ IntRelease(p) \/ IntGlobal(p)

(***************************************************************************)
(* splinter_set_label, splinter_watch_register,                            *)
(* splinter_watch_label_register, splinter_get_signal_count                *)
(***************************************************************************)
\* entry of set_label(key, mask): fnv1a, slot_idx.  The history keeps the
\* groups the bits of mask are mapped to, with their signal counts
CallSetLabel(p, k, mask) ==
  /\ CanCall(p)
  /\ pr' = [pr EXCEPT ![p] =
       [Enter(@, "set_label", k, "set_label_probe") EXCEPT
          !.mask = mask,
          !.due = [g \in {g \in DOMAIN H.signal_groups :
                            \E b \in mask : H.bloom_watches[b] = g}
                     |-> H.signal_groups[g]]]]
  /\ UNCHANGED <<H, S, mem, G>>

\* i < H->slots; load(&slot->hash) == h; ENOENT after the loop
LabelProbe(p) ==
  /\ pr[p].pc = "set_label_probe"
  /\ ProbeStep(p, "", -1, ENOENT)
  /\ UNCHANGED <<H, S, mem, G>>

LabelKey(p) ==
  /\ pr[p].pc = "set_label_key"
  /\ KeyStep(p, "set_label_or")
  /\ UNCHANGED <<H, S, mem, G>>

\* fetch_or(&slot->bloom, mask)
LabelOr(p) ==
  /\ pr[p].pc = "set_label_or"
  /\ S' = [S EXCEPT ![At(p)].bloom = @ \cup pr[p].mask]
  /\ pr' = [pr EXCEPT ![p].pc = "set_label_global"]
  /\ UNCHANGED <<H, mem, G>>

\* fetch_add(&H->epoch, 1); return 0
LabelGlobal(p) ==
  /\ pr[p].pc = "set_label_global"
  /\ H' = [H EXCEPT !.epoch = @ + 1]
  /\ pr' = [pr EXCEPT ![p] = Leave(@, 0, NONE)]
  /\ G' = [G EXCEPT !.labels[pr[p].key] = @ \cup pr[p].mask]
  /\ UNCHANGED <<S, mem>>

LabelStep(p) == LabelProbe(p) \/ LabelKey(p) \/ LabelOr(p) \/ LabelGlobal(p)

\* entry of watch_register(key, group_id): group_id >= SPLINTER_MAX_GROUPS
\* is EINVAL, -2
CallWatchRegister(p, k, g) ==
  /\ CanCall(p)
  /\ pr' = [pr EXCEPT ![p] =
       IF g >= SPLINTER_MAX_GROUPS
         THEN Leave([Enter(@, "watch_register", k, "done") EXCEPT !.arg = g],
                    -2, EINVAL)
         ELSE [Enter(@, "watch_register", k, "watch_register_probe")
                 EXCEPT !.arg = g,
                        !.wm0 = UNION {S[i].watcher_mask : i \in BoundSlots(k)}]]
  /\ UNCHANGED <<H, S, mem, G>>

\* i < H->slots; load(&slot->hash) == h; return -1 after the loop
WatchProbe(p) ==
  /\ pr[p].pc = "watch_register_probe"
  /\ ProbeStep(p, "", -1, NONE)
  /\ UNCHANGED <<H, S, mem, G>>

WatchKey(p) ==
  /\ pr[p].pc = "watch_register_key"
  /\ KeyStep(p, "watch_register_or")
  /\ UNCHANGED <<H, S, mem, G>>

\* fetch_or(&slot->watcher_mask, 1ULL << group_id); return 0
WatchOr(p) ==
  /\ pr[p].pc = "watch_register_or"
  /\ S' = [S EXCEPT ![At(p)].watcher_mask = @ \cup {pr[p].arg}]
  /\ pr' = [pr EXCEPT ![p] = Leave(@, 0, NONE)]
  /\ G' = [G EXCEPT !.watches[pr[p].key] = @ \cup {pr[p].arg}]
  /\ UNCHANGED <<H, mem>>

WatchStep(p) == WatchProbe(p) \/ WatchKey(p) \/ WatchOr(p)

(***************************************************************************)
(* splinter_watch_unregister                                               *)
(***************************************************************************)
\* entry: group_id >= SPLINTER_MAX_GROUPS returns -1
CallWatchUnregister(p, k, g) ==
  /\ CanCall(p)
  /\ pr' = [pr EXCEPT ![p] =
       LET paired == /\ pr[p].op = "watch_register" /\ pr[p].key = k
                     /\ pr[p].arg = g /\ pr[p].ret = 0
           r == [Enter(@, "watch_unregister", k, "watch_unregister_probe")
                   EXCEPT !.arg = g,
                          !.wm0 = IF paired THEN pr[p].wm0
                                  ELSE UNION {S[i].watcher_mask :
                                                i \in BoundSlots(k)}]
       IN IF g >= SPLINTER_MAX_GROUPS THEN Leave(r, -1, NONE) ELSE r]
  /\ UNCHANGED <<H, S, mem, G>>

\* i < H->slots; load(&slot->hash) == h; return -1 after the loop
UnwatchProbe(p) ==
  /\ pr[p].pc = "watch_unregister_probe"
  /\ ProbeStep(p, "", -1, NONE)
  /\ UNCHANGED <<H, S, mem, G>>

UnwatchKey(p) ==
  /\ pr[p].pc = "watch_unregister_key"
  /\ KeyStep(p, "watch_unregister_and")
  /\ UNCHANGED <<H, S, mem, G>>

\* a store of 0 to slot->watcher_mask in place of the fetch_and
UnwatchClear(p) ==
  /\ pr[p].pc = "watch_unregister_and"
  /\ S' = [S EXCEPT ![At(p)].watcher_mask = {}]
  /\ pr' = [pr EXCEPT ![p] = Leave(@, 0, NONE)]
  /\ G' = [G EXCEPT !.watches[pr[p].key] = {}]
  /\ UNCHANGED <<H, mem>>

\* fetch_and(&slot->watcher_mask, ~(1ULL << group_id)); return 0
UnwatchAnd(p) ==
  /\ pr[p].pc = "watch_unregister_and"
  /\ S' = [S EXCEPT ![At(p)].watcher_mask = @ \ {pr[p].arg}]
  /\ pr' = [pr EXCEPT ![p] = Leave(@, 0, NONE)]
  /\ G' = [G EXCEPT !.watches[pr[p].key] = @ \ {pr[p].arg}]
  /\ UNCHANGED <<H, mem>>

\* entry of watch_label_register(bloom_mask, group_id): -1 when group_id >=
\* SPLINTER_MAX_GROUPS
\* the entry of splinter_watch_label_register without the test of group_id
CallWatchLabelRegisterUnchecked(p, mask, g) ==
  /\ CanCall(p)
  /\ pr' = [pr EXCEPT ![p] =
       [Enter(@, "watch_label_register", <<>>, "watch_label_register_loop")
          EXCEPT !.arg = g, !.mask = mask]]
  /\ UNCHANGED <<H, S, mem, G>>

CallWatchLabelRegister(p, mask, g) ==
  /\ CanCall(p)
  /\ pr' = [pr EXCEPT ![p] =
       IF g >= SPLINTER_MAX_GROUPS
         THEN Leave([Enter(@, "watch_label_register", <<>>, "done")
                       EXCEPT !.arg = g, !.mask = mask], -1, NONE)
         ELSE [Enter(@, "watch_label_register", <<>>,
                     "watch_label_register_loop")
                 EXCEPT !.arg = g, !.mask = mask]]
  /\ UNCHANGED <<H, S, mem, G>>

\* the loop over the 64 bits: the store for the next bit of the mask at or
\* after i, return 0 when there is none
WatchLabelLoop(p) ==
  /\ pr[p].pc = "watch_label_register_loop"
  /\ LET rest == {b \in pr[p].mask : b >= pr[p].i} IN
     IF rest = {}
       THEN /\ pr' = [pr EXCEPT ![p] = Leave(@, 0, NONE)]
            /\ UNCHANGED H
       ELSE LET b == CHOOSE c \in rest : \A d \in rest : c <= d IN
            /\ H' = [H EXCEPT !.bloom_watches[b] = pr[p].arg]
            /\ pr' = [pr EXCEPT ![p].i = b + 1]
  /\ UNCHANGED <<S, mem, G>>

\* get_signal_count(group_id): one load, 0 when group_id >=
\* SPLINTER_MAX_GROUPS
GetSignalCount(p, g) ==
  /\ CanCall(p)
  /\ pr' = [pr EXCEPT ![p] =
       Leave([Enter(@, "get_signal_count", <<>>, "done") EXCEPT !.arg = g],
             IF g >= SPLINTER_MAX_GROUPS THEN 0 ELSE H.signal_groups[g],
             NONE)]
  /\ UNCHANGED <<H, S, mem, G>>

(***************************************************************************)
(* splinter_poll                                                           *)
(***************************************************************************)
\* entry: fnv1a, slot_idx
CallPoll(p, k) ==
  /\ CanCall(p)
  /\ pr' = [pr EXCEPT ![p] = Enter(@, "poll", k, "poll_probe")]
  /\ UNCHANGED <<H, S, mem, G>>

\* i < H->slots; load(&s->hash) == h; `if (!slot) return -1` after the loop
PollProbe(p) ==
  /\ pr[p].pc = "poll_probe"
  /\ ProbeStep(p, "", -1, NONE)
  /\ UNCHANGED <<H, S, mem, G>>

PollKey(p) ==
  /\ pr[p].pc = "poll_key"
  /\ KeyStep(p, "poll_start")
  /\ UNCHANGED <<H, S, mem, G>>

\* start_epoch = load(&slot->epoch); odd is EAGAIN, -2; the deadline is set
PollStart(p) ==
  /\ pr[p].pc = "poll_start"
  /\ pr' = [pr EXCEPT ![p] =
       IF S[At(p)].epoch % 2 = 1
         THEN Leave([@ EXCEPT !.start = S[At(p)].epoch], -2, EAGAIN)
         ELSE [@ EXCEPT !.start = S[At(p)].epoch, !.pc = "poll_load",
                        !.done0 = G.done[pr[p].key]]]
  /\ UNCHANGED <<H, S, mem, G>>

\* cur_epoch = load(&slot->epoch): odd is EAGAIN, -2; different from
\* start_epoch is success
PollLoad(p) ==
  /\ pr[p].pc = "poll_load"
  /\ LET cur == S[At(p)].epoch IN
     pr' = [pr EXCEPT ![p] =
       IF cur % 2 = 1 THEN Leave([@ EXCEPT !.end = cur], -2, EAGAIN)
       ELSE IF cur # pr[p].start THEN Leave([@ EXCEPT !.end = cur], 0, NONE)
       ELSE [@ EXCEPT !.end = cur, !.pc = "poll_clock",
                      !.missed = @ \/ (~pr[p].late
                                        /\ G.done[pr[p].key] > pr[p].done0)]]
  /\ UNCHANGED <<H, S, mem, G>>

\* clock_gettime(&now): at or past the deadline is ETIMEDOUT, -2; else
\* nanosleep and the next iteration
PollClock(p) ==
  /\ pr[p].pc = "poll_clock"
  /\ pr' = [pr EXCEPT ![p] =
       IF pr[p].late THEN Leave(@, -2, ETIMEDOUT)
                     ELSE [@ EXCEPT !.pc = "poll_load"]]
  /\ UNCHANGED <<H, S, mem, G>>

\* the deadline of the poll of p passes
PollDeadline(p) ==
  /\ pr[p].pc \in {"poll_load", "poll_clock"}
  /\ ~pr[p].late
  /\ pr' = [pr EXCEPT ![p].late = TRUE]
  /\ UNCHANGED <<H, S, mem, G>>

PollStep(p) ==
  \/ PollProbe(p) \/ PollKey(p) \/ PollStart(p) \/ PollLoad(p)
  \/ PollClock(p) \/ PollDeadline(p)

(***************************************************************************)
(* splinter_list                                                           *)
(***************************************************************************)
\* entry: count = 0, i = 0; buf_sz is max_keys
CallList(p, max_keys) ==
  /\ CanCall(p)
  /\ pr' = [pr EXCEPT ![p] =
       [Enter(@, "list", <<>>, "list_slot") EXCEPT !.buf_sz = max_keys]]
  /\ UNCHANGED <<H, S, mem, G>>

\* i < H->slots && count < max_keys; load(&S[i].hash) &&
\* load(&S[i].val_len) > 0: out_keys[count++] = S[i].key; after the loop
\* *out_count = count; return 0
ListSlot(p) ==
  /\ pr[p].pc = "list_slot"
  /\ pr' = [pr EXCEPT ![p] =
       IF pr[p].i < H.slots /\ Len(pr[p].buf) < pr[p].buf_sz
         THEN [@ EXCEPT !.i = @ + 1,
                        !.buf = IF S[pr[p].i].hash # Zero64
                                   /\ S[pr[p].i].val_len > 0
                                  THEN Append(@, S[pr[p].i].key) ELSE @]
         ELSE Leave([@ EXCEPT !.out_sz = Len(pr[p].buf)], 0, NONE)]
  /\ UNCHANGED <<H, S, mem, G>>

(***************************************************************************)
(* splinter_open, map_fd, splinter_close                                   *)
(***************************************************************************)
\* shm_open and fstat succeed: the object exists
CallOpen(p) ==
  /\ CanCall(p)
  /\ pr' = [pr EXCEPT ![p] = Enter(@, "open", <<>>, "open_map")]
  /\ UNCHANGED <<H, S, mem, G>>

\* map_fd: g_base = mmap(..); H, S and VALUES are set
OpenMap(p) ==
  /\ pr[p].pc = "open_map"
  /\ pr' = [pr EXCEPT ![p].mapped = TRUE, ![p].pc = "open_validate"]
  /\ UNCHANGED <<H, S, mem, G>>

\* if (H->magic != SPLINTER_MAGIC || H->version != SPLINTER_VER) return -1
OpenValidate(p) ==
  /\ pr[p].pc = "open_validate"
  /\ pr' = [pr EXCEPT ![p] =
       IF H.magic # SPLINTER_MAGIC \/ H.version # SPLINTER_VER
         THEN Leave([@ EXCEPT !.rejected = TRUE], -1, NONE)
         ELSE Leave([@ EXCEPT !.rejected = FALSE], 0, NONE)]
  /\ UNCHANGED <<H, S, mem, G>>

\* munmap; g_base = NULL; H = NULL; S = NULL; VALUES = NULL
splinter_close(p) ==
  /\ CanCall(p)
  /\ pr[p].mapped
  /\ pr' = [pr EXCEPT ![p] =
       Leave([Enter(@, "close", <<>>, "done") EXCEPT
                !.mapped = FALSE, !.rejected = FALSE], 0, NONE)]
  /\ UNCHANGED <<H, S, mem, G>>

(***************************************************************************)
(* splinter_purge                                                          *)
(***************************************************************************)
\* the hash, key, val_len, type_flag and value bytes of every slot
Stored ==
  [ i \in Slots |->
      [ hash |-> S[i].hash, key |-> S[i].key, val_len |-> S[i].val_len,
        type_flag |-> S[i].type_flag,
        val |-> Load(S[i].val_off, S[i].val_len) ] ]

\* entry: H, S and VALUES are set; i = 0
CallPurge(p) ==
  /\ CanCall(p)
  /\ pr' = [pr EXCEPT ![p] = Enter(@, "purge", <<>>, "purge_epoch")]
  /\ G' = [G EXCEPT !.kept = Stored]
  /\ UNCHANGED <<H, S, mem>>

\* i < H->slots; e = load(&slot->epoch); `if (e & 1ull) continue`
PurgeEpoch(p) ==
  /\ pr[p].pc = "purge_epoch"
  /\ pr' = [pr EXCEPT ![p] =
       IF pr[p].i >= H.slots THEN Leave(@, 0, NONE)
       ELSE IF S[pr[p].i].epoch % 2 = 1 THEN [@ EXCEPT !.i = @ + 1]
       ELSE [@ EXCEPT !.e = S[pr[p].i].epoch, !.pc = "purge_cas"]]
  /\ UNCHANGED <<H, S, mem, G>>

\* compare_exchange_strong(&slot->epoch, &e, e + 1), else continue
PurgeCas(p) ==
  /\ pr[p].pc = "purge_cas"
  /\ IF S[pr[p].i].epoch = pr[p].e
       THEN /\ S' = [S EXCEPT ![pr[p].i].epoch = pr[p].e + 1]
            /\ pr' = [pr EXCEPT ![p].pc = "purge_len", ![p].own = pr[p].i]
       ELSE /\ pr' = [pr EXCEPT ![p].pc = "purge_epoch", ![p].i = @ + 1]
            /\ UNCHANGED S
  /\ UNCHANGED <<H, mem, G>>

\* len = load(&slot->val_len); dst = VALUES + slot->val_off
PurgeLen(p) ==
  /\ pr[p].pc = "purge_len"
  /\ pr' = [pr EXCEPT ![p].len = S[pr[p].i].val_len,
                      ![p].off = S[pr[p].i].val_off,
                      ![p].pc = "purge_sweep"]
  /\ UNCHANGED <<H, S, mem, G>>

\* load(&slot->hash) == 0: memset(dst, 0, max_val_sz); else if
\* len < max_val_sz: memset(dst + len, 0, max_val_sz - len)
PurgeSweep(p) ==
  /\ pr[p].pc = "purge_sweep"
  /\ LET from == IF S[pr[p].i].hash = Zero64 THEN pr[p].off
                 ELSE pr[p].off + Min(pr[p].len, H.max_val_sz)
         to == pr[p].off + H.max_val_sz
     IN mem' = [a \in DOMAIN mem |->
                  IF a >= from /\ a < to THEN 0 ELSE mem[a]]
  /\ pr' = [pr EXCEPT ![p].pc = "purge_release"]
  /\ UNCHANGED <<H, S, G>>

\* fetch_add(&slot->epoch, 1); ++i
PurgeRelease(p) ==
  /\ pr[p].pc = "purge_release"
  /\ S' = [S EXCEPT ![pr[p].i].epoch = @ + 1]
  /\ pr' = [pr EXCEPT ![p].pc = "purge_epoch", ![p].i = @ + 1, ![p].own = -1]
  /\ UNCHANGED <<H, mem, G>>

PurgeStep(p) ==
  \/ PurgeEpoch(p) \/ PurgeCas(p) \/ PurgeLen(p) \/ PurgeSweep(p)
  \/ PurgeRelease(p)

(***************************************************************************)
(* splinter_client_set_tandem, splinter_client_unset_tandem                *)
(***************************************************************************)
\* the separator between a base key and an order: "."
SPL_ORDER_ACCESSOR == <<46>>

\* "%u" of i
RECURSIVE Decimal(_)
Decimal(i) == IF i < 10 THEN <<48 + i>>
              ELSE Append(Decimal(i \div 10), 48 + (i % 10))

\* the key of order i as a caller writes it: base, the accessor, i
OrderKey(base, i) ==
  IF i = 0 THEN base ELSE base \o SPL_ORDER_ACCESSOR \o Decimal(i)

\* snprintf(tandem_name, sizeof(tandem_name), "%s%s%u", base_key, ".", i):
\* at most SPLINTER_KEY_MAX - 1 bytes are kept
TandemName(base, i) == Prefix(OrderKey(base, i), SPLINTER_KEY_MAX - 1)

\* splinter_client_set_tandem as the first calls of process p: order 0 is set
\* under the base key, order i under tandem_name, and the loop is left at
\* the first set that fails.  The loop variable is the number of calls made
splinter_client_set_tandem(p, base, vals, orders) ==
  \/ pr[p].cnt = 0 /\ CallSet(p, base, vals[1])
  \/ \E i \in 1 .. (orders - 1) :
        /\ pr[p].cnt = i /\ pr[p].ret = 0
        /\ CallSet(p, TandemName(base, i), vals[i + 1])

\* splinter_client_unset_tandem as the calls of p from call number first on:
\* the base key, then every tandem_name; the results are not looked at
splinter_client_unset_tandem(p, base, orders, first) ==
  \/ pr[p].cnt = first /\ CallUnset(p, base)
  \/ \E i \in 1 .. (orders - 1) :
        pr[p].cnt = first + i /\ CallUnset(p, TandemName(base, i))

(***************************************************************************)
(* splinter_set_embedding, splinter_get_embedding                          *)
(***************************************************************************)
CallSetEmbedding(p, k, vec) ==
  /\ CanCall(p)
  /\ pr' = [pr EXCEPT ![p] =
       [Enter(@, "set_embedding", k, "set_embedding_probe") EXCEPT !.val = vec]]
  /\ G' = [Begin(k) EXCEPT !.vecs[k] = @ \cup {vec}]
  /\ UNCHANGED <<H, S, mem>>

\* i < H->slots; load(&slot->hash) == h; -1 after the loop
EmbedProbe(p) ==
  /\ pr[p].pc = "set_embedding_probe"
  /\ ProbeStep(p, "", -1, NONE)
  /\ UNCHANGED <<H, S, mem, G>>

EmbedKey(p) ==
  /\ pr[p].pc = "set_embedding_key"
  /\ KeyStep(p, "set_embedding_epoch")
  /\ UNCHANGED <<H, S, mem, G>>

\* e = load(&slot->epoch); if (e & 1) return -1
EmbedEpoch(p) ==
  /\ pr[p].pc = "set_embedding_epoch"
  /\ pr' = [pr EXCEPT ![p] =
       IF S[At(p)].epoch % 2 = 1
         THEN Leave(@, -1, NONE)
         ELSE [@ EXCEPT !.e = S[At(p)].epoch, !.pc = "set_embedding_cas"]]
  /\ UNCHANGED <<H, S, mem, G>>

\* compare_exchange_strong(&slot->epoch, &e, e + 1), else return -1
EmbedCas(p) ==
  /\ pr[p].pc = "set_embedding_cas"
  /\ IF S[At(p)].epoch = pr[p].e
       THEN /\ S' = [S EXCEPT ![At(p)].epoch = pr[p].e + 1]
            /\ pr' = [pr EXCEPT ![p].pc = "set_embedding_copy", ![p].own = At(p)]
       ELSE /\ pr' = [pr EXCEPT ![p] = Leave(@, -1, NONE)]
            /\ UNCHANGED S
  /\ UNCHANGED <<H, mem, G>>

\* memcpy(slot->embedding, vec, ..), one component a step
EmbedCopy(p) ==
  /\ pr[p].pc = "set_embedding_copy"
  /\ S' = [S EXCEPT ![At(p)].embedding[pr[p].n + 1] = pr[p].val[pr[p].n + 1]]
  /\ pr' = [pr EXCEPT ![p].n = @ + 1,
                      ![p].pc = IF pr[p].n + 1 = EmbedDim
                                  THEN "set_embedding_release"
                                  ELSE "set_embedding_copy"]
  /\ UNCHANGED <<H, mem, G>>

\* fetch_add(&slot->epoch, 1)
EmbedRelease(p) ==
  /\ pr[p].pc = "set_embedding_release"
  /\ S' = [S EXCEPT ![At(p)].epoch = @ + 1]
  /\ pr' = [pr EXCEPT ![p].pc = "set_embedding_global", ![p].own = -1]
  /\ UNCHANGED <<H, mem, G>>

\* fetch_add(&H->epoch, 1); return 0
EmbedGlobal(p) ==
  /\ pr[p].pc = "set_embedding_global"
  /\ H' = [H EXCEPT !.epoch = @ + 1]
  /\ pr' = [pr EXCEPT ![p] = Leave(@, 0, NONE)]
  /\ UNCHANGED <<S, mem, G>>

EmbedStep(p) ==
  \/ EmbedProbe(p) \/ EmbedKey(p) \/ EmbedEpoch(p) \/ EmbedCas(p)
  \/ EmbedCopy(p) \/ EmbedRelease(p) \/ EmbedGlobal(p)

CallGetEmbedding(p, k) ==
  /\ CanCall(p)
  /\ pr' = [pr EXCEPT ![p] = Enter(@, "get_embedding", k, "get_embedding_probe")]
  /\ UNCHANGED <<H, S, mem, G>>

\* i < H->slots; load(&slot->hash) == h; -1 after the loop
GetEmbedProbe(p) ==
  /\ pr[p].pc = "get_embedding_probe"
  /\ ProbeStep(p, "", -1, NONE)
  /\ UNCHANGED <<H, S, mem, G>>

GetEmbedKey(p) ==
  /\ pr[p].pc = "get_embedding_key"
  /\ KeyStep(p, "get_embedding_start")
  /\ UNCHANGED <<H, S, mem, G>>

\* start = load(&slot->epoch); if (start & 1) EAGAIN
GetEmbedStart(p) ==
  /\ pr[p].pc = "get_embedding_start"
  /\ pr' = [pr EXCEPT ![p] =
       IF S[At(p)].epoch % 2 = 1
         THEN Leave([@ EXCEPT !.start = S[At(p)].epoch], -1, EAGAIN)
         ELSE [@ EXCEPT !.start = S[At(p)].epoch, !.pc = "get_embedding_copy"]]
  /\ UNCHANGED <<H, S, mem, G>>

\* memcpy(embedding_out, slot->embedding, ..), one component a step
GetEmbedCopy(p) ==
  /\ pr[p].pc = "get_embedding_copy"
  /\ pr' = [pr EXCEPT ![p].buf = Append(@, S[At(p)].embedding[pr[p].n + 1]),
                      ![p].n = @ + 1,
                      ![p].pc = IF pr[p].n + 1 = EmbedDim
                                  THEN "get_embedding_end"
                                  ELSE "get_embedding_copy"]
  /\ UNCHANGED <<H, S, mem, G>>

\* end = load(&slot->epoch); start == end is success, else EAGAIN
GetEmbedEnd(p) ==
  /\ pr[p].pc = "get_embedding_end"
  /\ LET end == S[At(p)].epoch IN
     pr' = [pr EXCEPT ![p] =
       IF pr[p].start = end
         THEN Leave([@ EXCEPT !.end = end], 0, NONE)
         ELSE Leave([@ EXCEPT !.end = end], -1, EAGAIN)]
  /\ UNCHANGED <<H, S, mem, G>>

GetEmbedStep(p) ==
  \/ GetEmbedProbe(p) \/ GetEmbedKey(p) \/ GetEmbedStart(p)
  \/ GetEmbedCopy(p) \/ GetEmbedEnd(p)

(***************************************************************************)
(* splinter_set_av, splinter_set_hybrid_av: one atomic access each         *)
(***************************************************************************)
\* mode 0 as splinter_config_clear(H, SPL_SYS_AUTO_SCRUB) would do it: the
\* hybrid bit is left as it is
SetAvMasterOnly(p, mode) ==
  /\ CanCall(p)
  /\ LET r == [Enter(pr[p], "set_av", <<>>, "done") EXCEPT !.arg = mode] IN
     IF ~pr[p].mapped
       THEN /\ pr' = [pr EXCEPT ![p] = Leave(r, -2, NONE)]
            /\ UNCHANGED H
     ELSE IF mode = 1
       THEN /\ H' = [H EXCEPT !.core_flags =
                       (@ + SPL_SYS_AUTO_SCRUB) - BitAnd(@, SPL_SYS_AUTO_SCRUB)]
            /\ pr' = [pr EXCEPT ![p] = Leave(r, 0, NONE)]
     ELSE IF mode = 0
       THEN /\ H' = [H EXCEPT !.core_flags = @ - BitAnd(@, SPL_SYS_AUTO_SCRUB)]
            /\ pr' = [pr EXCEPT ![p] = Leave(r, 0, NONE)]
     ELSE /\ pr' = [pr EXCEPT ![p] = Leave(r, -1, ENOTSUP)]
          /\ UNCHANGED H
  /\ UNCHANGED <<S, mem, G>>

\* set_av(mode): !H is -2; mode 1 is splinter_config_set(H, AUTO_SCRUB), a
\* fetch_or; mode 0 is fetch_and(&H->core_flags, ~(AUTO_SCRUB | HYBRID_SCRUB));
\* any other mode is ENOTSUP, -1
splinter_set_av(p, mode) ==
  /\ CanCall(p)
  /\ LET r == [Enter(pr[p], "set_av", <<>>, "done") EXCEPT !.arg = mode]
         both == SPL_SYS_AUTO_SCRUB + SPL_SYS_HYBRID_SCRUB IN
     IF ~pr[p].mapped
       THEN /\ pr' = [pr EXCEPT ![p] = Leave(r, -2, NONE)]
            /\ UNCHANGED H
     ELSE IF mode = 1
       THEN /\ H' = [H EXCEPT !.core_flags =
                       (@ + SPL_SYS_AUTO_SCRUB) - BitAnd(@, SPL_SYS_AUTO_SCRUB)]
            /\ pr' = [pr EXCEPT ![p] = Leave(r, 0, NONE)]
     ELSE IF mode = 0
       THEN /\ H' = [H EXCEPT !.core_flags = @ - BitAnd(@, both)]
            /\ pr' = [pr EXCEPT ![p] = Leave(r, 0, NONE)]
     ELSE /\ pr' = [pr EXCEPT ![p] = Leave(r, -1, ENOTSUP)]
          /\ UNCHANGED H
  /\ UNCHANGED <<S, mem, G>>

\* splinter_config_set(H, mask): fetch_or(&hdr->core_flags, mask)
splinter_config_set(p, mask) ==
  /\ CanCall(p)
  /\ H' = [H EXCEPT !.core_flags = (@ + mask) - BitAnd(@, mask)]
  /\ pr' = [pr EXCEPT ![p] =
       Leave([Enter(@, "config_set", <<>>, "done") EXCEPT !.arg = mask],
             0, NONE)]
  /\ UNCHANGED <<S, mem, G>>

\* set_hybrid_av(): fetch_or(&H->core_flags, AUTO_SCRUB | HYBRID_SCRUB)
splinter_set_hybrid_av(p) ==
  /\ CanCall(p)
  /\ LET r == Enter(pr[p], "set_hybrid_av", <<>>, "done")
         both == SPL_SYS_AUTO_SCRUB + SPL_SYS_HYBRID_SCRUB IN
     IF ~pr[p].mapped
       THEN /\ pr' = [pr EXCEPT ![p] = Leave(r, -2, NONE)]
            /\ UNCHANGED H
       ELSE /\ H' = [H EXCEPT !.core_flags = (@ + both) - BitAnd(@, both)]
            /\ pr' = [pr EXCEPT ![p] = Leave(r, 0, NONE)]
  /\ UNCHANGED <<S, mem, G>>

(***************************************************************************)
(* splinter_create and splinter_create_or_open on a backing object that    *)
(* exists.  persistent is the build: with SPLINTER_PERSISTENT the object   *)
(* is a file opened with O_RDWR | O_CREAT, without it a shared-memory      *)
(* object opened with O_RDWR | O_CREAT | O_EXCL.  The object has the size  *)
(* the call computes, ftruncate leaves its bytes as they are               *)
(***************************************************************************)
\* splinter_create returns ret without a store attached; create_or_open
\* goes on with splinter_open when ret is not 0
CreateFails(r, ret, err) ==
  IF r.op = "create_or_open" THEN [r EXCEPT !.pc = "open_map"]
                             ELSE Leave(r, ret, err)

\* entry: slots <= 0 || max_value_sz <= 0 is ENOTSUP, -2; open or shm_open;
\* fd < 0 returns -1; ftruncate; map_fd
CallCreate(p, op, persistent, slots, max_value_sz) ==
  /\ CanCall(p)
  /\ ~pr[p].mapped
  /\ pr' = [pr EXCEPT ![p] =
       LET r == [Enter(@, op, <<>>, "create_header") EXCEPT
                   !.arg = slots, !.buf_sz = max_value_sz]
       IN IF slots <= 0 \/ max_value_sz <= 0 THEN CreateFails(r, -2, ENOTSUP)
          ELSE IF ~persistent THEN CreateFails(r, -1, EEXIST)
          ELSE [r EXCEPT !.mapped = TRUE]]
  /\ UNCHANGED <<H, S, mem, G>>

\* "Initialize header": magic, version, slots, max_val_sz, val_sz and the
\* stores to val_brk, epoch, core_flags, user_flags, parse_failures and
\* last_failure_epoch
CreateHeader(p) ==
  /\ pr[p].pc = "create_header"
  /\ H' = [H EXCEPT !.magic = SPLINTER_MAGIC, !.version = SPLINTER_VER,
                    !.slots = pr[p].arg, !.max_val_sz = pr[p].buf_sz,
                    !.val_sz = TotalSz32(pr[p].arg, pr[p].buf_sz),
                    !.val_brk = 0, !.epoch = 1, !.core_flags = 0,
                    !.user_flags = 0, !.parse_failures = 0,
                    !.last_failure_epoch = 0]
  /\ pr' = [pr EXCEPT ![p].i = 0, ![p].pc = "create_slot"]
  /\ UNCHANGED <<S, mem, G>>

\* "Initialize slots": one pass of the loop over i < slots
CreateSlot(p) ==
  /\ pr[p].pc = "create_slot"
  /\ LET i == pr[p].i IN
     /\ S' = [S EXCEPT ![i] =
          [@ EXCEPT !.type_flag = IF HasBit(@, SPL_SLOT_DEFAULT_TYPE)
                                    THEN @ ELSE @ + SPL_SLOT_DEFAULT_TYPE,
                    !.hash = Zero64, !.epoch = 0, !.ctime = 0, !.atime = 0,
                    !.user_flag = 0, !.watcher_mask = {},
                    !.val_off = i * pr[p].buf_sz, !.val_len = 0,
                    !.key = <<>>]]
     /\ H' = [H EXCEPT !.bloom_watches = [b \in Bits64 |-> NoWatch]]
     /\ pr' = [pr EXCEPT ![p] =
          IF i + 1 < pr[p].arg THEN [@ EXCEPT !.i = i + 1]
                               ELSE Leave(@, 0, NONE)]
  /\ UNCHANGED <<mem, G>>

CreateStep(p) == CreateHeader(p) \/ CreateSlot(p)

(***************************************************************************)
(* Keys, values and stores of the checked configurations                   *)
(***************************************************************************)
\* "a" and "c" hash to index 0 of a two-slot table, "b" to index 1
KeyA == <<97>>
KeyB == <<98>>
KeyC == <<99>>

\* a key of 64 bytes, one more than a slot stores
KeyLong == [i \in 1 .. SPLINTER_KEY_MAX |-> 97]

ValX == <<1, 1>>
ValY == <<2, 2>>
ValZ == <<3>>
\* a key whose FNV-1a hash is 0: the bytes d5 6b b9 53 42 87 08 36
KeyZero == <<213, 107, 185, 83, 66, 135, 8, 54>>

\* a value of 65 bytes, one more than a cache line
ValLine == [i \in 1 .. 65 |-> 9]

\* a key of 62 bytes: with ".1" appended it has 64
KeyBase == [i \in 1 .. (SPLINTER_KEY_MAX - 2) |-> 97]

\* a value longer than the max_val_sz of the stores of 2-byte values
ValLong == <<7, 7, 7>>
\* the text "12"
ValD == <<49, 50>>

\* the store after splinter_create(name, slots, max_value_sz), with the
\* processes ps attached and idle; top bytes of VALUES are kept
Created(slots, max_value_sz, top, ps, ks) ==
  /\ H = CreateH(slots, max_value_sz)
  /\ S = CreateS(slots, max_value_sz)
  /\ mem = CreateMem(top)
  /\ pr = [p \in ps |-> IdleRec]
  /\ G = NoHistory(ks)

(***************************************************************************)
(* One writer setting one key, a reader getting it                         *)
(***************************************************************************)
InitRW == Created(2, 2, 4, {"w", "r"}, {KeyA})

NextRW ==
  \/ \E v \in {ValX, ValZ} : Budget("w", MaxOps) /\ CallSet("w", KeyA, v)
  \/ SetStep("w")
  \/ SetKey0Elided("w")
  \/ Budget("r", MaxOps) /\ CallGet("r", KeyA, TRUE, 2)
  \/ GetStep("r")

SpecRW == InitRW /\ [][NextRW]_vars

(***************************************************************************)
(* One writer setting one key, a reader taking slot snapshots of it        *)
(***************************************************************************)
InitSnap == Created(2, 2, 4, {"w", "r"}, {KeyA})

NextSnap ==
  \/ \E v \in {ValX, ValZ} : Budget("w", MaxOps) /\ CallSet("w", KeyA, v)
  \/ SetStep("w")
  \/ Budget("r", MaxOps) /\ CallSnapshot("r", KeyA)
  \/ SnapshotStep("r")

SpecSnap == InitSnap /\ [][NextSnap]_vars

\* what a step of get_slot_snapshot by the reader changes
SnapshotVars ==
  <<pr["r"].pc, pr["r"].i, pr["r"].start, pr["r"].end, pr["r"].snap>>

\* the same configuration with the reader always scheduled again; the writer
\* may stall or die at any step of a set
SpecStall ==
  InitSnap /\ [][NextSnap]_vars /\ WF_SnapshotVars(SnapshotStep("r"))

(***************************************************************************)
(* Two processes setting and unsetting one key                             *)
(***************************************************************************)
InitSU == Created(2, 2, 4, {"p", "q"}, {KeyA})

NextSU ==
  \E p \in {"p", "q"} :
    \/ Budget(p, MaxOps) /\ CallSet(p, KeyA, ValX)
    \/ Budget(p, MaxOps) /\ CallUnset(p, KeyA)
    \/ SetStep(p)
    \/ UnsetStep(p)

SpecSU == InitSU /\ [][NextSU]_vars

(***************************************************************************)
(* Two writers setting two keys of one probe path, a reader of one key     *)
(***************************************************************************)
InitCollide == Created(2, 2, 4, {"p", "q", "r"}, {KeyA, KeyC})

NextCollide ==
  \/ Budget("p", MaxOps) /\ CallSet("p", KeyA, ValX)
  \/ SetStep("p")
  \/ Budget("q", MaxSets) /\ CallSet("q", KeyC, ValZ)
  \/ SetStep("q")
  \/ Budget("r", MaxOps) /\ CallGet("r", KeyA, TRUE, 2)
  \/ GetStep("r")

SpecCollide == InitCollide /\ [][NextCollide]_vars

(***************************************************************************)
(* One process setting, unsetting and getting two keys of one probe path   *)
(***************************************************************************)
InitSeq == Created(2, 2, 4, {"s"}, {KeyA, KeyC})

NextSeq ==
  \/ \E k \in {KeyA, KeyC} : Budget("s", SeqOps) /\ CallSet("s", k, ValX)
  \/ \E k \in {KeyA, KeyC} : Budget("s", SeqOps) /\ CallUnset("s", k)
  \/ \E k \in {KeyA, KeyC} : Budget("s", SeqOps) /\ CallGet("s", k, TRUE, 2)
  \/ SetStep("s")
  \/ UnsetStep("s")
  \/ GetStep("s")

SpecSeq == InitSeq /\ [][NextSeq]_vars

(***************************************************************************)
(* One process setting two keys and converting one of them to BIGUINT;     *)
(* an 8-byte value fits the partition of a slot                            *)
(***************************************************************************)
InitType == Created(2, 8, 24, {"s"}, {KeyA, KeyB})

NextType ==
  \/ Budget("s", TypeOps) /\ CallSet("s", KeyA, ValX)
  \/ \E v \in {ValZ, ValD} : Budget("s", TypeOps) /\ CallSet("s", KeyB, v)
  \/ \E m \in {SPL_SLOT_TYPE_BIGUINT, SPL_SLOT_TYPE_VARTEXT} :
        Budget("s", TypeOps) /\ CallSetNamedType("s", KeyB, m)
  \/ Budget("s", TypeOps) /\ CallGet("s", KeyA, TRUE, 2)
  \/ SetStep("s")
  \/ SetAbort("s")
  \/ TypeStep("s")
  \/ GetStep("s")

SpecType == InitType /\ [][NextType]_vars

(***************************************************************************)
(* One process setting and unsetting a key while another converts it       *)
(***************************************************************************)
InitUT == Created(2, 8, 24, {"p", "q"}, {KeyB})

NextUT ==
  \/ Budget("p", MaxOps) /\ CallSet("p", KeyB, ValZ)
  \/ Budget("p", MaxOps) /\ CallUnset("p", KeyB)
  \/ Budget("q", MaxSets) /\ CallSetNamedType("q", KeyB, SPL_SLOT_TYPE_BIGUINT)
  \/ SetStep("p")
  \/ UnsetStep("p")
  \/ TypeStep("q")

SpecUT == InitUT /\ [][NextUT]_vars

(***************************************************************************)
(* One process using a short key and a key of SPLINTER_KEY_MAX bytes       *)
(***************************************************************************)
InitLong == Created(2, 2, 4, {"s"}, {KeyA, KeyLong})

NextLong ==
  \/ \E k \in {KeyA, KeyLong} : Budget("s", SeqOps) /\ CallSet("s", k, ValX)
  \/ \E k \in {KeyA, KeyLong} : Budget("s", SeqOps) /\ CallUnset("s", k)
  \/ \E k \in {KeyA, KeyLong} : Budget("s", SeqOps) /\ CallGet("s", k, TRUE, 2)
  \/ SetStep("s")
  \/ UnsetStep("s")
  \/ GetStep("s")

SpecLong == InitLong /\ [][NextLong]_vars

(***************************************************************************)
(* Two processes incrementing one BIGUINT slot: p creates it by two sets   *)
(* and set_named_type, then both call integer_op(INC, 1)                   *)
(***************************************************************************)
InitInc == Created(2, 8, 24, {"p", "q"}, {KeyB})

NextInc ==
  \/ pr["p"].cnt < 2 /\ CallSet("p", KeyB, ValZ)
  \/ pr["p"].cnt = 2 /\ CallSetNamedType("p", KeyB, SPL_SLOT_TYPE_BIGUINT)
  \/ pr["p"].cnt > 2 /\ Budget("p", 3 + IncOps)
       /\ CallIntegerOp("p", KeyB, SPL_OP_INC, Bytes(1, 8))
  \/ Budget("q", IncOps) /\ CallIntegerOp("q", KeyB, SPL_OP_INC, Bytes(1, 8))
  \/ SetStep("p")
  \/ TypeStep("p")
  \/ IntStep("p")
  \/ IntStep("q")

SpecInc == InitInc /\ [][NextInc]_vars

(***************************************************************************)
(* One process creating a BIGUINT slot, then applying integer operations   *)
(* and reading the result                                                  *)
(***************************************************************************)
\* the operands: 1, 5 and 2^64 - 1
Masks == {Bytes(1, 8), Bytes(5, 8), NotWord(Bytes(0, 8))}

Ops == {SPL_OP_AND, SPL_OP_OR, SPL_OP_XOR, SPL_OP_NOT, SPL_OP_INC, SPL_OP_DEC}

InitOp == Created(2, 8, 24, {"s"}, {KeyB})

NextOp ==
  \/ pr["s"].cnt < 2 /\ \E v \in {ValZ, ValD} : CallSet("s", KeyB, v)
  \/ pr["s"].cnt = 2 /\ CallSetNamedType("s", KeyB, SPL_SLOT_TYPE_BIGUINT)
  \/ pr["s"].cnt > 2 /\ Budget("s", 3 + OpOps)
       /\ \E op \in Ops, m \in Masks : CallIntegerOp("s", KeyB, op, m)
  \/ pr["s"].cnt > 2 /\ Budget("s", 3 + OpOps) /\ CallGet("s", KeyB, TRUE, 8)
  \/ SetStep("s")
  \/ TypeStep("s")
  \/ IntStep("s")
  \/ GetStep("s")

SpecOp == InitOp /\ [][NextOp]_vars

(***************************************************************************)
(* One process labelling a key that shares its probe path with another     *)
(***************************************************************************)
InitLabel == Created(2, 2, 4, {"s"}, {KeyA, KeyC})

NextLabel ==
  \/ \E k \in {KeyA, KeyC} : Budget("s", LabelOps) /\ CallSet("s", k, ValX)
  \/ Budget("s", LabelOps) /\ CallUnset("s", KeyA)
  \/ Budget("s", LabelOps) /\ CallWatchLabelRegister("s", {7}, 3)
  \/ Budget("s", LabelOps) /\ CallSetLabel("s", KeyC, {7})
  \/ Budget("s", LabelOps) /\ GetSignalCount("s", 3)
  \/ SetStep("s")
  \/ UnsetStep("s")
  \/ WatchLabelLoop("s")
  \/ LabelStep("s")

SpecLabel == InitLabel /\ [][NextLabel]_vars

(***************************************************************************)
(* One process watching a BIGUINT slot it writes by set and integer_op     *)
(***************************************************************************)
InitWatch == Created(2, 8, 24, {"s"}, {KeyB})

NextWatch ==
  \/ pr["s"].cnt < 2 /\ CallSet("s", KeyB, ValZ)
  \/ pr["s"].cnt = 2 /\ CallSetNamedType("s", KeyB, SPL_SLOT_TYPE_BIGUINT)
  \/ pr["s"].cnt > 2 /\ Budget("s", 3 + OpOps) /\ CallSet("s", KeyB, ValD)
  \/ pr["s"].cnt > 2 /\ Budget("s", 3 + OpOps) /\ CallWatchRegister("s", KeyB, 3)
  \/ pr["s"].cnt > 2 /\ Budget("s", 3 + OpOps)
       /\ CallIntegerOp("s", KeyB, SPL_OP_INC, Bytes(1, 8))
  \/ pr["s"].cnt > 2 /\ Budget("s", 3 + OpOps) /\ GetSignalCount("s", 3)
  \/ SetStep("s")
  \/ TypeStep("s")
  \/ WatchStep("s")
  \/ IntStep("s")

SpecWatch == InitWatch /\ [][NextWatch]_vars

(***************************************************************************)
(* One process polling a key that another sets and unsets                  *)
(***************************************************************************)
InitPoll == Created(2, 2, 4, {"w", "r"}, {KeyA})

NextPoll ==
  \/ Budget("w", PollOps) /\ CallSet("w", KeyA, ValX)
  \/ Budget("w", PollOps) /\ CallUnset("w", KeyA)
  \/ Budget("r", MaxSets) /\ CallPoll("r", KeyA)
  \/ SetStep("w")
  \/ UnsetStep("w")
  \/ PollStep("r")

SpecPoll == InitPoll /\ [][NextPoll]_vars

(***************************************************************************)
(* One process setting two keys, converting one to BIGUINT, deleting it    *)
(* and purging                                                             *)
(***************************************************************************)
InitPurge == Created(2, 8, 24, {"s"}, {KeyA, KeyB})

NextPurge ==
  \/ Budget("s", PurgeOps) /\ CallSet("s", KeyA, ValX)
  \/ Budget("s", PurgeOps) /\ CallSet("s", KeyB, ValD)
  \/ Budget("s", PurgeOps) /\ CallSetNamedType("s", KeyB, SPL_SLOT_TYPE_BIGUINT)
  \/ Budget("s", PurgeOps) /\ CallUnset("s", KeyB)
  \/ Budget("s", PurgeOps) /\ CallPurge("s")
  \/ SetStep("s")
  \/ TypeStep("s")
  \/ UnsetStep("s")
  \/ PurgeStep("s")

SpecPurge == InitPurge /\ [][NextPurge]_vars

(***************************************************************************)
(* One process opening an object of this or of an older layout version,    *)
(* then setting and getting keys                                           *)
(***************************************************************************)
InitOpen ==
  /\ \E ver \in {SPLINTER_VER - 1, SPLINTER_VER} :
        H = [CreateH(2, 2) EXCEPT !.version = ver]
  /\ S = CreateS(2, 2)
  /\ mem = CreateMem(4)
  /\ pr = [p \in {"s"} |-> [IdleRec EXCEPT !.mapped = FALSE]]
  /\ G = NoHistory({KeyA, KeyC})

NextOpen ==
  \/ Budget("s", OpenOps) /\ CallOpen("s")
  \/ Budget("s", OpenOps) /\ splinter_close("s")
  \/ \E k \in {KeyA, KeyC} : Budget("s", OpenOps) /\ CallSet("s", k, ValX)
  \/ \E k \in {KeyA, KeyC} : Budget("s", OpenOps) /\ CallGet("s", k, TRUE, 2)
  \/ OpenMap("s")
  \/ OpenValidate("s")
  \/ SetStep("s")
  \/ GetStep("s")

SpecOpen == InitOpen /\ [][NextOpen]_vars

(***************************************************************************)
(* One process setting and converting a key in a store of 2 slots whose    *)
(* total size is 2^32 + 8 bytes: 4224 + 2 * 3200 + 2 * 2147478340          *)
(***************************************************************************)
InitNomem == Created(2, 2147478340, 16, {"s"}, {KeyA})

NextNomem ==
  \/ \E v \in {ValZ, ValD} : Budget("s", NomemOps) /\ CallSet("s", KeyA, v)
  \/ Budget("s", NomemOps)
       /\ CallSetNamedType("s", KeyA, SPL_SLOT_TYPE_BIGUINT)
  \/ SetStep("s")
  \/ TypeStep("s")
  \/ TypeNomem("s")

SpecNomem == InitNomem /\ [][NextNomem]_vars

(***************************************************************************)
(* One process setting values of length 0, 2 and 3 in a store of 2-byte    *)
(* values, and getting them                                                *)
(***************************************************************************)
InitLen == Created(2, 2, 4, {"s"}, {KeyA, KeyC})

NextLen ==
  \/ \E k \in {KeyA, KeyC}, v \in {<<>>, ValX, ValLong} :
        Budget("s", LenOps) /\ CallSet("s", k, v)
  \/ \E k \in {KeyA, KeyC} : Budget("s", LenOps) /\ CallGet("s", k, TRUE, 2)
  \/ SetStep("s")
  \/ GetStep("s")

SpecLen == InitLen /\ [][NextLen]_vars

(***************************************************************************)
(* One process setting a key to values of 1 and 2 bytes, another getting   *)
(* it with no buffer or a buffer of 0, 1 or 2 bytes                        *)
(***************************************************************************)
InitBuf == Created(2, 2, 4, {"w", "r"}, {KeyA})

NextBuf ==
  \/ \E v \in {ValX, ValZ} : Budget("w", MaxOps) /\ CallSet("w", KeyA, v)
  \/ \E bufp \in BOOLEAN, sz \in 0 .. 2 :
        Budget("r", MaxSets) /\ CallGet("r", KeyA, bufp, sz)
  \/ SetStep("w")
  \/ GetStep("r")

SpecBuf == InitBuf /\ [][NextBuf]_vars

(***************************************************************************)
(* One process setting a key, converting it to BIGUINT and incrementing    *)
(* it, another retyping the key to VARTEXT                                 *)
(***************************************************************************)
InitRetype == Created(2, 8, 24, {"p", "q"}, {KeyB})

NextRetype ==
  \/ pr["p"].cnt < 2 /\ CallSet("p", KeyB, ValZ)
  \/ pr["p"].cnt = 2 /\ CallSetNamedType("p", KeyB, SPL_SLOT_TYPE_BIGUINT)
  \/ pr["p"].cnt > 2 /\ Budget("p", 3 + MaxSets)
       /\ CallIntegerOp("p", KeyB, SPL_OP_INC, Bytes(1, 8))
  \/ Budget("q", MaxSets) /\ CallSetNamedType("q", KeyB, SPL_SLOT_TYPE_VARTEXT)
  \/ SetStep("p")
  \/ TypeStep("p")
  \/ IntStep("p")
  \/ TypeStep("q")

SpecRetype == InitRetype /\ [][NextRetype]_vars

(***************************************************************************)
(* One process setting, deleting and listing two keys that collide         *)
(***************************************************************************)
InitList == Created(2, 2, 4, {"s"}, {KeyA, KeyC})

NextList ==
  \/ \E k \in {KeyA, KeyC} : Budget("s", ListOps) /\ CallSet("s", k, ValX)
  \/ \E k \in {KeyA, KeyC} : Budget("s", ListOps) /\ CallUnset("s", k)
  \/ Budget("s", ListOps) /\ CallList("s", 2)
  \/ SetStep("s")
  \/ UnsetStep("s")
  \/ ListSlot("s")

SpecList == InitList /\ [][NextList]_vars

(***************************************************************************)
(* One process setting a key, then registering and unregistering groups 3  *)
(* and 5 on it                                                             *)
(***************************************************************************)
InitPair == Created(2, 2, 4, {"s"}, {KeyA})

NextPair ==
  \/ pr["s"].cnt < 2 /\ CallSet("s", KeyA, ValX)
  \/ \E g \in {3, 5} :
        pr["s"].cnt >= 1 /\ Budget("s", 2 + PairOps)
          /\ CallWatchRegister("s", KeyA, g)
  \/ \E g \in {3, 5} :
        pr["s"].cnt >= 1 /\ Budget("s", 2 + PairOps)
          /\ CallWatchUnregister("s", KeyA, g)
  \/ SetStep("s")
  \/ WatchStep("s")
  \/ UnwatchProbe("s")
  \/ UnwatchKey("s")
  \/ UnwatchAnd("s")

SpecPair == InitPair /\ [][NextPair]_vars

(***************************************************************************)
(* One process setting and labelling a key; once the set has returned,     *)
(* another deletes that key and sets a key that collides with it           *)
(***************************************************************************)
InitLeak == Created(2, 2, 4, {"p", "q"}, {KeyA, KeyC})

NextLeak ==
  \/ pr["p"].cnt = 0 /\ CallSet("p", KeyA, ValX)
  \/ pr["p"].cnt >= 1 /\ Budget("p", 1 + MaxOps) /\ CallSetLabel("p", KeyA, {7})
  \/ pr["q"].cnt = 0 /\ G.bound[KeyA] /\ CallUnset("q", KeyA)
  \/ pr["q"].cnt >= 1 /\ Budget("q", 1 + MaxOps) /\ CallSet("q", KeyC, ValX)
  \/ SetStep("p")
  \/ LabelStep("p")
  \/ UnsetStep("q")
  \/ SetStep("q")

SpecLeak == InitLeak /\ [][NextLeak]_vars

(***************************************************************************)
(* One process setting a key, watching or labelling it, mapping the label  *)
(* to group 3 or to the invalid group 64 and setting the key again;        *)
(* another deleting the key or purging once                                *)
(***************************************************************************)
InitSignal == Created(2, 2, 4, {"p", "q"}, {KeyA})

NextSignal ==
  \/ pr["p"].cnt \in {0} \cup (3 .. (SigOps - 1)) /\ CallSet("p", KeyA, ValX)
  \/ pr["p"].cnt = 1 /\ CallWatchRegister("p", KeyA, 3)
  \/ pr["p"].cnt = 1 /\ CallSetLabel("p", KeyA, {7})
  \/ \E g \in {3, SPLINTER_MAX_GROUPS} :
        pr["p"].cnt = 2 /\ CallWatchLabelRegister("p", {7}, g)
  \/ pr["q"].cnt = 0 /\ CallUnset("q", KeyA)
  \/ pr["q"].cnt = 0 /\ CallPurge("q")
  \/ SetStep("p")
  \/ WatchStep("p")
  \/ LabelStep("p")
  \/ WatchLabelLoop("p")
  \/ UnsetStep("q")
  \/ PurgeStep("q")

SpecSignal == InitSignal /\ [][NextSignal]_vars

(***************************************************************************)
(* One process: set_tandem of a short or a 62-byte base key, a get of      *)
(* every order, a set of the base key, unset_tandem, a get of every order  *)
(* again                                                                   *)
(***************************************************************************)
TandemVals == <<ValX, ValY>>

InitTandem ==
  \E b \in {KeyA, KeyBase} :
     Created(2, 2, 4, {"p"},
             UNION {{OrderKey(b, i), TandemName(b, i)} :
                      i \in 0 .. (TandemOrders - 1)})

\* the base key of the run
TandemBase == CHOOSE b \in {KeyA, KeyBase} : b \in DOMAIN G.issued

NextTandem ==
  \/ splinter_client_set_tandem("p", TandemBase, TandemVals, TandemOrders)
  \/ \E j \in 0 .. (TandemOrders - 1) :
        /\ pr["p"].cnt = TandemOrders + j
        /\ j = 0 => pr["p"].op = "set" /\ pr["p"].ret = 0
        /\ CallGet("p", OrderKey(TandemBase, j), TRUE, 2)
  \/ pr["p"].cnt = 2 * TandemOrders /\ CallSet("p", TandemBase, ValY)
  \/ splinter_client_unset_tandem("p", TandemBase, TandemOrders,
                                  (2 * TandemOrders) + 1)
  \/ \E j \in 0 .. (TandemOrders - 1) :
        /\ pr["p"].cnt = (3 * TandemOrders) + 1 + j
        /\ CallGet("p", OrderKey(TandemBase, j), TRUE, 2)
  \/ SetStep("p")
  \/ GetStep("p")
  \/ UnsetStep("p")

SpecTandem == InitTandem /\ [][NextTandem]_vars

(***************************************************************************)
(* One process setting and deleting two keys that share a home slot, with  *)
(* an embedding for each                                                   *)
(***************************************************************************)
\* the vector set for a key: its first byte in every component
VecOf(k) == [c \in 1 .. EmbedDim |-> k[1]]

InitEmbed == Created(2, 2, 4, {"p"}, {KeyA, KeyC})

NextEmbed ==
  \/ \E k \in {KeyA, KeyC} : Budget("p", EmbedOps) /\ CallSet("p", k, ValX)
  \/ \E k \in {KeyA, KeyC} :
        Budget("p", EmbedOps) /\ CallSetEmbedding("p", k, VecOf(k))
  \/ Budget("p", EmbedOps) /\ CallUnset("p", KeyA)
  \/ Budget("p", EmbedOps) /\ CallGetEmbedding("p", KeyC)
  \/ SetStep("p")
  \/ EmbedStep("p")
  \/ UnsetStep("p")
  \/ GetEmbedStep("p")

SpecEmbed == InitEmbed /\ [][NextEmbed]_vars

(***************************************************************************)
(* One process setting a key whose hash is 0 and a key with the same home  *)
(* slot, and listing the keys                                              *)
(***************************************************************************)
InitZero == Created(2, 2, 4, {"p"}, {KeyZero, KeyA})

NextZero ==
  \/ \E k \in {KeyZero, KeyA} : Budget("p", ZeroOps) /\ CallSet("p", k, ValX)
  \/ Budget("p", ZeroOps) /\ CallList("p", 2)
  \/ SetStep("p")
  \/ ListSlot("p")

SpecZero == InitZero /\ [][NextZero]_vars

(***************************************************************************)
(* Two processes switching the scrub flags                                 *)
(***************************************************************************)
InitAv == Created(2, 2, 4, {"p", "q"}, {KeyA})

NextAv ==
  \/ \E p \in {"p", "q"}, mode \in 0 .. 2 :
        Budget(p, AvOps) /\ splinter_set_av(p, mode)
  \/ \E p \in {"p", "q"} : Budget(p, AvOps) /\ splinter_set_hybrid_av(p)

SpecAv == InitAv /\ [][NextAv]_vars

(***************************************************************************)
(* A store of one slot of 65 bytes: a writer filling the slot and then     *)
(* setting short values, another process switching the scrub flags         *)
(***************************************************************************)
InitScrub == Created(1, 65, 65, {"w", "q"}, {KeyA})

NextScrub ==
  \/ pr["w"].cnt = 0 /\ CallSet("w", KeyA, ValLine)
  \/ \E v \in {ValX, ValZ} :
        pr["w"].cnt >= 1 /\ Budget("w", ScrubOps) /\ CallSet("w", KeyA, v)
  \/ \E mode \in {0, 1} : Budget("q", MaxOps) /\ splinter_set_av("q", mode)
  \/ Budget("q", MaxOps) /\ splinter_set_hybrid_av("q")
  \/ Budget("q", MaxOps) /\ splinter_config_set("q", SPL_SYS_HYBRID_SCRUB)
  \/ SetStep("w")
  \/ SetScrubStep("w")

SpecScrub == InitScrub /\ [][NextScrub]_vars

(***************************************************************************)
(* One process naming the type of a key, rewriting its value and applying  *)
(* an integer operation                                                    *)
(***************************************************************************)
\* a uint16_t mask with a bit above the eight of type_flag
MaskWide == SPL_SLOT_TYPE_BIGUINT + 256

TypeMasks == {SPL_SLOT_TYPE_VARTEXT, SPL_SLOT_TYPE_BIGUINT, MaskWide}

ValWord == Bytes(7, 8)

InitMask == Created(2, 8, 24, {"s"}, {KeyB})

NextMask ==
  \/ pr["s"].cnt = 0 /\ CallSet("s", KeyB, ValZ)
  \/ pr["s"].cnt \in {1, 2} /\ \E m \in TypeMasks : CallSetNamedType("s", KeyB, m)
  \/ pr["s"].cnt = 3 /\ \E v \in {ValZ, ValWord} : CallSet("s", KeyB, v)
  \/ pr["s"].cnt > 3 /\ Budget("s", 4 + MaskOps)
       /\ CallIntegerOp("s", KeyB, SPL_OP_INC, Bytes(1, 8))
  \/ SetStep("s")
  \/ TypeStep("s")
  \/ IntStep("s")

SpecMask == InitMask /\ [][NextMask]_vars

(***************************************************************************)
(* One process setting a key, rewriting it with a short value, converting  *)
(* it to BIGUINT and reading it back                                       *)
(***************************************************************************)
\* "0", "42", "010", "0x1f", "4a", and a value that starts with no digit
Numerals ==
  {<<48>>, <<52, 50>>, <<48, 49, 48>>, <<48, 120, 49, 102>>, <<52, 97>>, ValZ}

InitDigits == Created(2, 8, 24, {"s"}, {KeyB})

NextDigits ==
  \/ pr["s"].cnt = 0 /\ CallSet("s", KeyB, ValX)
  \/ pr["s"].cnt = 1 /\ \E v \in Numerals : CallSet("s", KeyB, v)
  \/ pr["s"].cnt = 2 /\ CallSetNamedType("s", KeyB, SPL_SLOT_TYPE_BIGUINT)
  \/ pr["s"].cnt = 3 /\ CallGet("s", KeyB, TRUE, 8)
  \/ SetStep("s")
  \/ TypeStep("s")
  \/ GetStep("s")

SpecDigits == InitDigits /\ [][NextDigits]_vars

(***************************************************************************)
(* One process setting a key in a store; a second process, not attached,   *)
(* then calling create or create_or_open on the object of the store with   *)
(* its geometry, and getting the key                                       *)
(***************************************************************************)
InitCreate ==
  /\ H = CreateH(2, 2)
  /\ S = CreateS(2, 2)
  /\ mem = CreateMem(4)
  /\ pr = [p \in {"w", "c"} |->
             IF p = "c" THEN [IdleRec EXCEPT !.mapped = FALSE] ELSE IdleRec]
  /\ G = NoHistory({KeyA})

NextCreate ==
  \/ pr["c"].cnt = 0 /\ Budget("w", CreateOps)
       /\ \E v \in {ValX, ValY} : CallSet("w", KeyA, v)
  \/ pr["w"].pc = "done" /\ pr["c"].cnt = 0
       /\ \E op \in {"create", "create_or_open"}, persistent \in BOOLEAN,
             slots \in {0, 2} : CallCreate("c", op, persistent, slots, 2)
  \/ pr["c"].cnt = 1 /\ CallOpen("c")
  \/ pr["c"].cnt \in {1, 2} /\ CallGet("c", KeyA, TRUE, 2)
  \/ SetStep("w")
  \/ CreateStep("c")
  \/ OpenMap("c")
  \/ OpenValidate("c")
  \/ GetStep("c")

SpecCreate == InitCreate /\ [][NextCreate]_vars

(***************************************************************************)
(* Properties.  Returned(p, op): p has returned from a call of op          *)
(***************************************************************************)
Returned(p, op) == pr[p].pc = "done" /\ pr[p].op = op

Retry(p) == pr[p].ret = -1 /\ pr[p].err = EAGAIN

Quiescent == \A p \in Procs : pr[p].pc \in {"idle", "done"}

\* C1: a get(k) begun when k is present, with one writer that only sets k,
\* returns retry or success, and a success carries the length and the bytes
\* of one of the values the writer passed to set
C1_GetSuccessOrRetry ==
  \A p \in Procs :
    (Returned(p, "get") /\ pr[p].bound0) =>
       \/ Retry(p)
       \/ /\ pr[p].ret = 0
          /\ pr[p].buf \in G.issued[pr[p].key]
          /\ pr[p].out_sz = Len(pr[p].buf)

\* C2: a get_slot_snapshot that returns success copied its fields between
\* two samples of the epoch that are equal and even: the sample stored in
\* the snapshot before the copy and the sample taken after it
C2_SnapshotSamplesEqualEven ==
  \A p \in Procs :
    (Returned(p, "snapshot") /\ pr[p].ret = 0) =>
       /\ pr[p].snap.epoch = pr[p].end
       /\ pr[p].end % 2 = 0
       /\ pr[p].start = pr[p].end

\* the positions of a call between its first and its last store to the
\* slot it found (hash, key, value bytes, val_len, type_flag, epoch)
WriteBody ==
  { "set_check", "set_abort", "set_flags", "set_flags2", "set_scrub", "set_copy",
    "set_len", "set_key0", "set_strncpy", "set_hash", "set_release",
    "unset_hash", "unset_flags", "unset_scrub", "unset_key0", "unset_type0",
    "unset_type1", "unset_epoch0", "unset_vlen", "unset_times", "unset_watch",
    "unset_bloom", "unset_release" }

InBody(p) == pr[p].pc \in WriteBody

\* C3: a call is inside the write body of a slot only after its own
\* compare-and-swap moved that slot's epoch from even to odd, and no two
\* calls are inside the write body of the same slot at once
C3_WriteBodyOwnsSeqlock ==
  \A p \in Procs :
    InBody(p) =>
      /\ pr[p].own = At(p)
      /\ \A q \in Procs \ {p} : ~(InBody(q) /\ At(q) = At(p))

\* C7: the epoch of a slot never decreases
C7_SlotEpochNeverDecreases ==
  [][\A s \in Slots : S'[s].epoch >= S[s].epoch]_vars

\* C8: when every call has returned, every slot's epoch is even
C8_QuiescentEpochEven ==
  Quiescent => \A s \in Slots : S[s].epoch % 2 = 0

\* C4: a get(k) begun after set(k, v) returned success, with no writing
\* call on k begun since that set, returns retry or exactly v, whatever
\* sets of other keys of the same probe path do meanwhile
C4_GetAfterSetReturnsValue ==
  \A p \in Procs :
    ( /\ Returned(p, "get")
      /\ pr[p].last0 # NoValue
      /\ G.muts[pr[p].key] = pr[p].muts0 ) =>
       \/ Retry(p)
       \/ /\ pr[p].ret = 0
          /\ pr[p].buf = pr[p].last0
          /\ pr[p].out_sz = Len(pr[p].last0)

\* C5: a get(k) issued right after a successful unset(k) by the same
\* process, with no other process running, returns not found
C5_GetAfterUnsetNotFound ==
  \A p \in Procs :
    ( /\ Returned(p, "get")
      /\ pr[p].prev.op = "unset" /\ pr[p].prev.key = pr[p].key
      /\ pr[p].prev.ret >= 0 ) =>
       pr[p].ret = -1 /\ pr[p].err = NOTFOUND

\* C6: when every call has returned, no key is bound to two slots
C6_KeyBoundToOneSlot ==
  Quiescent => \A k \in DOMAIN G.muts : Cardinality(BoundSlots(k)) <= 1

\* C9: a key whose set returned, with no writing call on that key since,
\* keeps its value in the slot bound to it, whatever calls on other keys
\* (set_named_type to BIGUINT among them) have run
C9_OtherKeysKeepTheirValue ==
  \A k \in DOMAIN G.last :
    G.last[k] # NoValue =>
      \A s \in BoundSlots(k) :
         Load(S[s].val_off, S[s].val_len) = G.last[k]

\* C10: the value range of every slot ends inside the value arena of
\* slots x max_val_sz bytes
C10_ValueRangeInsideArena ==
  \A s \in Slots : S[s].val_off + S[s].val_len <= H.slots * H.max_val_sz

\* C11: when every call has returned, a slot typed BIGUINT holds 8 bytes
C11_BiguintSlotHoldsEightBytes ==
  Quiescent =>
    \A s \in Slots :
       HasBit(S[s].type_flag, SPL_SLOT_TYPE_BIGUINT) => S[s].val_len = 8

\* C12: when every call has returned, a slot whose hash is 0 has val_len 0
C12_FreeSlotHasNoValue ==
  Quiescent => \A s \in Slots : S[s].hash = Zero64 => S[s].val_len = 0

\* C13: when every call has returned, the hash of an occupied slot is the
\* FNV-1a hash of the key bytes the slot stores
C13_HashIsHashOfStoredKey ==
  Quiescent =>
    \A s \in Slots : S[s].hash # Zero64 => S[s].hash = fnv1a(S[s].key)

\* C14: with every call returned, a BIGUINT slot created with the value 3
\* and incremented by 1 concurrently holds 3 plus the number of
\* integer_op(INC, 1) calls that returned success
C14_IncrementsAreCounted ==
  Quiescent =>
    \A s \in BoundSlots(KeyB) :
       HasBit(S[s].type_flag, SPL_SLOT_TYPE_BIGUINT) =>
          Load(S[s].val_off, 8) = Bytes(ValZ[1] + G.incs[KeyB], 8)

\* C14 witness: both processes have incremented and one call found the
\* seqlock taken
C14_Witness ==
  /\ Quiescent
  /\ G.incs[KeyB] >= 2
  /\ pr["p"].op = "integer_op" /\ pr["p"].ret = 0
  /\ pr["q"].op = "integer_op" /\ Retry("q")
  /\ \E s \in BoundSlots(KeyB) : Load(S[s].val_off, 8) = Bytes(ValZ[1] + 2, 8)

\* the 64-bit word of 8 bytes as four 16-bit limbs, and back
Limbs(b) == [i \in 1 .. 4 |-> b[(2 * i) - 1] + (256 * b[2 * i])]

Unlimbs(l) ==
  [j \in 1 .. 8 |-> IF j % 2 = 1 THEN l[(j + 1) \div 2] % 256
                                 ELSE l[j \div 2] \div 256]

\* limb-wise difference of two 64-bit words with borrow, modulo 2^64
Sub64(x, y) ==
  LET d0 == x[1] - y[1]
      b0 == IF d0 < 0 THEN 1 ELSE 0
      d1 == (x[2] - y[2]) - b0
      b1 == IF d1 < 0 THEN 1 ELSE 0
      d2 == (x[3] - y[3]) - b1
      b2 == IF d2 < 0 THEN 1 ELSE 0
      d3 == (x[4] - y[4]) - b2
      b3 == IF d3 < 0 THEN 1 ELSE 0
  IN  <<d0 + (b0 * W16), d1 + (b1 * W16), d2 + (b2 * W16), d3 + (b3 * W16)>>

\* the positions of the 1 bits of a word of 8 bytes, and the word of a set
\* of positions
BitsOf(b) == {n \in Bits64 : (b[(n \div 8) + 1] \div (2 ^ (n % 8))) % 2 = 1}

RECURSIVE ByteOf(_, _, _)
ByteOf(B, j, k) ==
  IF k = 8 THEN 0
  ELSE (IF (8 * (j - 1)) + k \in B THEN 2 ^ k ELSE 0) + ByteOf(B, j, k + 1)

WordOf(B) == [j \in 1 .. 8 |-> ByteOf(B, j, 0)]

\* what the operation is to yield on the 64-bit values x and m
Expected(op, x, m) ==
  CASE op = SPL_OP_AND -> WordOf(BitsOf(x) \cap BitsOf(m))
    [] op = SPL_OP_OR  -> WordOf(BitsOf(x) \cup BitsOf(m))
    [] op = SPL_OP_XOR -> WordOf((BitsOf(x) \ BitsOf(m)) \cup (BitsOf(m) \ BitsOf(x)))
    [] op = SPL_OP_NOT -> WordOf(Bits64 \ BitsOf(x))
    [] op = SPL_OP_INC -> Unlimbs(Add64(Limbs(x), Limbs(m)))
    [] op = SPL_OP_DEC -> Unlimbs(Sub64(Limbs(x), Limbs(m)))

\* C15: a get that follows a successful integer_op(k, op, m) on a BIGUINT
\* slot holding x returns the 8 bytes of x op m, and the slot still has
\* val_len 8 and the val_off it had
C15_IntegerOpResult ==
  \A p \in Procs :
    ( /\ Returned(p, "get")
      /\ pr[p].prev.op = "integer_op" /\ pr[p].prev.key = pr[p].key
      /\ pr[p].prev.ret = 0 ) =>
       /\ pr[p].ret = 0
       /\ pr[p].out_sz = 8
       /\ pr[p].buf = Expected(G.iop.op, G.iop.x, G.iop.m)
       /\ \A s \in BoundSlots(pr[p].key) :
             S[s].val_len = 8 /\ S[s].val_off = G.iop.off

\* C15 witness: a get after a decrement below zero returned the wrapped
\* value 2^64 - 2
C15_Witness ==
  /\ Returned("s", "get") /\ pr["s"].ret = 0
  /\ pr["s"].prev.op = "integer_op" /\ pr["s"].prev.ret = 0
  /\ G.iop.op = SPL_OP_DEC /\ G.iop.x = Bytes(3, 8) /\ G.iop.m = Bytes(5, 8)
  /\ pr["s"].buf = <<254, 255, 255, 255, 255, 255, 255, 255>>

\* C16: a set, unset, integer_op or set_embedding that returned success has
\* left the global epoch greater than it was when the call was entered
C16_SuccessAdvancesGlobalEpoch ==
  \A p \in Procs :
    ( /\ pr[p].pc = "done"
      /\ pr[p].op \in {"set", "unset", "integer_op", "set_embedding"}
      /\ pr[p].ret >= 0 ) =>
       H.epoch > pr[p].epoch0

\* C17: a set(k, ..) that returned success has raised, by at least 1, the
\* signal count of every group that was mapped to a label of k when the
\* set was called
C17_LabelledSetPulses ==
  \A p \in Procs :
    (Returned(p, "set") /\ pr[p].ret = 0) =>
       \A g \in DOMAIN pr[p].due : H.signal_groups[g] >= pr[p].due[g] + 1

\* C18: an integer_op that returned success has raised, by at least 1, the
\* signal count of every group that watched the key when it was called
C18_IntegerOpPulses ==
  \A p \in Procs :
    (Returned(p, "integer_op") /\ pr[p].ret = 0) =>
       \A g \in DOMAIN pr[p].due : H.signal_groups[g] >= pr[p].due[g] + 1

\* C19: a poll does not time out when, before its deadline, it loaded the
\* epoch after a write of the key had committed (released the slot epoch)
\* that had not when the poll sampled its start epoch
C19_PollSeesCommittedWrite ==
  \A p \in Procs :
    (Returned(p, "poll") /\ pr[p].err = ETIMEDOUT) => ~pr[p].missed

\* C20: when a purge has returned, every slot has the hash, key, val_len
\* and type_flag it had when the purge was called and an even epoch, and
\* every slot that holds a key still holds the value bytes it held then
C20_PurgeKeepsLiveValues ==
  \A p \in Procs :
    Returned(p, "purge") =>
      \A i \in Slots :
        /\ S[i].hash = G.kept[i].hash
        /\ S[i].key = G.kept[i].key
        /\ S[i].val_len = G.kept[i].val_len
        /\ S[i].type_flag = G.kept[i].type_flag
        /\ S[i].epoch % 2 = 0
        /\ S[i].hash # Zero64 =>
             Load(S[i].val_off, S[i].val_len) = G.kept[i].val

\* C21: after an open that failed on the magic or the version, a set or a
\* get fails as with no store open (-1), and the rejected object keeps the
\* slots and value bytes it had
C21_RejectedOpenMapsNothing ==
  \A p \in Procs :
    pr[p].rejected =>
      /\ (pr[p].pc = "done" /\ pr[p].op \in {"set", "get"}) => pr[p].ret = -1
      /\ \A i \in Slots : S[i].hash = Zero64 /\ S[i].epoch = 0
      /\ \A a \in DOMAIN mem : mem[a] = 0

\* C22: a set_named_type that returned the allocation error has left
\* val_brk as it was when the call was entered, and the epoch of the slot
\* of the key even
C22_FailedBumpConsumesNothing ==
  \A p \in Procs :
    (Returned(p, "set_named_type") /\ pr[p].err = ENOMEM) =>
       /\ H.val_brk = pr[p].brk0
       /\ \A i \in BoundSlots(pr[p].key) : S[i].epoch % 2 = 0

\* C23: a call of set with a value of length 0 or longer than max_val_sz
\* returns -1 at once and leaves the header (global epoch and signal
\* counters included), every slot and every value byte as they were
C23_BadLengthSetChangesNothing ==
  [][\A p \in Procs :
       ( /\ CanCall(p)
         /\ pr'[p] # pr[p]
         /\ pr'[p].op = "set"
         /\ (Len(pr'[p].val) = 0 \/ Len(pr'[p].val) > H.max_val_sz) ) =>
          ( /\ pr'[p].pc = "done"
            /\ pr'[p].ret = -1
            /\ H' = H /\ S' = S /\ mem' = mem )]_vars

\* C23 witness: a set of a value longer than max_val_sz has returned -1 on a
\* key that is bound to a slot holding a value
C23_Witness ==
  \E p \in Procs :
    /\ Returned(p, "set")
    /\ Len(pr[p].val) > H.max_val_sz
    /\ pr[p].ret = -1
    /\ \E i \in BoundSlots(pr[p].key) : S[i].val_len > 0

\* C24: a get that ran with no writing call on its key under way, on a key
\* whose last set stored v, returns EMSGSIZE with out_sz = Len(v) and an
\* untouched buffer when it has a buffer smaller than v, and returns success
\* with out_sz = Len(v) when it has no buffer; and no step of a get changes
\* the header, a slot or a value byte
C24_GetReportsLength ==
  /\ [](\A p \in Procs :
         ( /\ Returned(p, "get")
           /\ pr[p].last0 # NoValue
           /\ G.muts[pr[p].key] = pr[p].muts0 ) =>
            /\ (pr[p].bufp /\ pr[p].buf_sz < Len(pr[p].last0)) =>
                  ( /\ pr[p].ret = -1 /\ pr[p].err = EMSGSIZE
                    /\ pr[p].out_sz = Len(pr[p].last0)
                    /\ pr[p].buf = <<>> )
            /\ ~pr[p].bufp =>
                  ( /\ pr[p].ret = 0
                    /\ pr[p].out_sz = Len(pr[p].last0)
                    /\ pr[p].buf = <<>> ))
  /\ [][\A p \in Procs :
         (pr'[p] # pr[p] /\ pr'[p].op = "get") =>
            (H' = H /\ S' = S /\ mem' = mem)]_vars

\* C24 witness: a get with a 1-byte buffer has returned EMSGSIZE on a key
\* holding 2 bytes, with out_sz = 2
C24_Witness ==
  \E p \in Procs :
    /\ Returned(p, "get") /\ pr[p].err = EMSGSIZE
    /\ pr[p].bufp /\ pr[p].buf_sz = 1 /\ pr[p].out_sz = 2
    /\ pr[p].last0 # NoValue /\ pr[p].last0 = ValX
    /\ G.muts[pr[p].key] = pr[p].muts0

\* C25: when an integer_op has stored its result and still holds the slot,
\* the type_flag of the slot includes BIGUINT
C25_IntegerOpOnlyOnBiguint ==
  \A p \in Procs :
    pr[p].pc = "integer_op_release" =>
       HasBit(S[At(p)].type_flag, SPL_SLOT_TYPE_BIGUINT)

\* C26: a get of a key longer than 63 bytes that directly follows a
\* successful set of the same key by the same process returns the value set
C26_LongKeySetThenGet ==
  \A p \in Procs :
    ( /\ Returned(p, "get")
      /\ Len(pr[p].key) >= SPLINTER_KEY_MAX
      /\ pr[p].prev.op = "set" /\ pr[p].prev.key = pr[p].key
      /\ pr[p].prev.ret = 0 ) =>
       (pr[p].ret = 0 /\ pr[p].buf = pr[p].last0)

\* C27: with one process and max_keys = slots, the count a list returns is
\* the number of keys that were set with success and not unset since
C27_ListCountsLiveKeys ==
  \A p \in Procs :
    Returned(p, "list") =>
       pr[p].out_sz = Cardinality({k \in DOMAIN G.bound : G.bound[k]})

\* C28 as stated: after a watch_unregister(k, g) that directly follows a
\* successful watch_register(k, g), the watcher_mask of the slot of k is
\* what it was before the register
C28_PairRestoresMask ==
  \A p \in Procs :
    ( /\ Returned(p, "watch_unregister") /\ pr[p].ret = 0
      /\ pr[p].prev.op = "watch_register" /\ pr[p].prev.ret = 0
      /\ pr[p].prev.key = pr[p].key /\ pr[p].prev.arg = pr[p].arg ) =>
       \A i \in BoundSlots(pr[p].key) : S[i].watcher_mask = pr[p].wm0

\* C28 amended: after such a pair the watcher_mask of the slot of k is what
\* it was before the register with bit g cleared, so every other bit is
\* unchanged and the mask is restored exactly when bit g was clear before
C28_PairClearsOnlyItsBit ==
  \A p \in Procs :
    ( /\ Returned(p, "watch_unregister") /\ pr[p].ret = 0
      /\ pr[p].prev.op = "watch_register" /\ pr[p].prev.ret = 0
      /\ pr[p].prev.key = pr[p].key /\ pr[p].prev.arg = pr[p].arg ) =>
       \A i \in BoundSlots(pr[p].key) :
          S[i].watcher_mask = pr[p].wm0 \ {pr[p].arg}

\* C28 witness: a register/unregister pair of group 3 has returned on a
\* slot that had groups 3 and 5 registered before the pair, and group 5 is
\* still registered
C28_Witness ==
  \E p \in Procs :
    /\ Returned(p, "watch_unregister") /\ pr[p].ret = 0 /\ pr[p].arg = 3
    /\ pr[p].prev.op = "watch_register" /\ pr[p].prev.ret = 0
    /\ pr[p].prev.key = pr[p].key /\ pr[p].prev.arg = 3
    /\ pr[p].wm0 = {3, 5}
    /\ \E i \in BoundSlots(pr[p].key) : S[i].watcher_mask = {5}

\* C29: with no call under way, the bloom of every occupied slot is the
\* union of the masks that set_label applied with success to the key of
\* the slot since that key was last deleted
C29_BloomIsItsKeysLabels ==
  Quiescent =>
    \A i \in Slots :
      S[i].hash # Zero64 =>
        \E k \in DOMAIN G.labels :
           KeyEq(S[i].key, k) /\ S[i].bloom = G.labels[k]

\* C30: every bloom_watches entry is a group 0..63 or the sentinel 0xFF in
\* every state, and no step lowers the counter of a signal group
C30_SignalsOnlyGrow ==
  /\ [](\A b \in DOMAIN H.bloom_watches :
          H.bloom_watches[b] \in (0 .. (SPLINTER_MAX_GROUPS - 1)) \cup {NoWatch})
  /\ [][\A g \in DOMAIN H.signal_groups :
          H'.signal_groups[g] >= H.signal_groups[g]]_vars

\* C30 witness: label 7 is mapped to group 3, a set has pulsed group 3, and
\* the other process has returned from an unset or a purge
C30_Witness ==
  /\ H.bloom_watches[7] = 3
  /\ H.signal_groups[3] >= 1
  /\ pr["q"].pc = "done" /\ pr["q"].op \in {"unset", "purge"}


\* C31: after set_tandem(base, vals, lens, n) returned success, get(base)
\* returns vals[0] and get(base.i) returns vals[i]; after unset_tandem(base,
\* n) the get of each of the n keys returns not-found
C31_TandemReadsBack ==
  \A j \in 0 .. (TandemOrders - 1) :
     /\ Returned("p", "get") /\ pr["p"].cnt = TandemOrders + j + 1
          => pr["p"].ret = 0 /\ pr["p"].buf = TandemVals[j + 1]
     /\ Returned("p", "get") /\ pr["p"].cnt = (3 * TandemOrders) + j + 2
          => pr["p"].ret = -1 /\ pr["p"].err = NOTFOUND

\* C32: a successful get_embedding(k) returns the vector of one
\* set_embedding(k, ..) call (or the zero vector of a slot never written),
\* never a mix and never the components set_embedding wrote for another key
C32_EmbeddingIsItsKeys ==
  \A p \in Procs :
     Returned(p, "get_embedding") /\ pr[p].ret = 0
       => pr[p].buf \in G.vecs[pr[p].key] \cup {[c \in 1 .. EmbedDim |-> 0]}

\* C33: a set_label(k, mask) that returned success has raised the signal
\* count of every group a bit of mask was mapped to when it was called
C33_LabelPulses ==
  \A p \in Procs :
    (Returned(p, "set_label") /\ pr[p].ret = 0) =>
       \A g \in DOMAIN pr[p].due : H.signal_groups[g] > pr[p].due[g]

\* C34: a call returns after a bounded number of its own steps even when
\* another process has stalled inside a write of the slot: every
\* get_slot_snapshot the reader is in returns
C34_SnapshotReturns ==
  (pr["r"].op = "snapshot" /\ pr["r"].pc # "done") ~> (pr["r"].pc = "done")

\* C35: between the calls, every key a set has stored, a key whose hash is
\* 0 included, is held by a slot with a nonzero hash: such a slot is listed
\* and is not free for the set of another key
C35_StoredKeyHasNonzeroHash ==
  Quiescent =>
    \A k \in {j \in DOMAIN G.bound : G.bound[j]} :
       \E s \in Slots : KeyEq(S[s].key, k) /\ S[s].hash # Zero64

\* the call process p returns from in this step
Calls(p, op) == pr'[p].cnt = pr[p].cnt + 1 /\ pr'[p].op = op

Copied(p) ==
  /\ pr[p].op = "set"
  /\ \/ pr[p].pc \in {"set_len", "set_key0", "set_strncpy", "set_hash",
                      "set_release", "set_pulse", "set_global"}
     \/ pr[p].pc = "done" /\ pr[p].ret = 0

\* C36: the scrub bits a set reads decide the tail of the slot's value
\* region.  Master set and hybrid clear: every byte from |v| to max_val_sz
\* is zero after the set; both set: the bytes from |v| to
\* min(round_up(|v|, 64), max_val_sz) are zero; master clear: no step of the
\* set changes a byte beyond |v|, whatever the hybrid bit is
C36_ScrubPolicyDecidesTail ==
  /\ [](Copied("w") =>
         LET len == Len(pr["w"].val)
             off == S[0].val_off
             rounded == ((len + 63) \div 64) * 64 IN
         /\ pr["w"].arg = SPL_SYS_AUTO_SCRUB =>
              \A a \in len .. (H.max_val_sz - 1) : mem[off + a] = 0
         /\ pr["w"].arg = SPL_SYS_AUTO_SCRUB + SPL_SYS_HYBRID_SCRUB =>
              \A a \in len .. (Min(rounded, H.max_val_sz) - 1) :
                 mem[off + a] = 0)
  /\ [][pr'["w"].op = "set" /\ pr'["w"].arg = 0 =>
          \A a \in Len(pr'["w"].val) .. (H.max_val_sz - 1) :
             mem'[S[0].val_off + a] = mem[S[0].val_off + a]]_vars

\* C36 witness: a one-byte set under the hybrid policy has returned: the
\* bytes up to the cache line are zero, the byte beyond it still holds the
\* earlier value; the hybrid bit was set while the master bit was clear
C36_Witness ==
  /\ Returned("w", "set") /\ pr["w"].ret = 0 /\ pr["w"].val = ValZ
  /\ pr["w"].arg = SPL_SYS_AUTO_SCRUB + SPL_SYS_HYBRID_SCRUB
  /\ mem[1] = 0 /\ mem[63] = 0 /\ mem[64] = 9
  /\ Returned("q", "set_av") /\ pr["q"].arg = 1
  /\ pr["q"].prev.op = "config_set"

\* process p returns from a call of op in this step
Returns(p, op) ==
  pr[p].op = op /\ pr[p].pc \notin {"idle", "done"} /\ pr'[p].pc = "done"

\* C37: a set_named_type(k, mask) that returns 0 leaves the slot of k with
\* type_flag equal to mask, whatever the flag was before; no step of a set
\* changes the type_flag, watcher_mask, bloom, ctime or atime of a slot; and
\* an integer_op on a key whose last set_named_type gave BIGUINT, called
\* after an 8-byte set of the key, returns 0
C37_TypeFlagIsMask ==
  /\ [][Returns("s", "set_named_type") /\ pr'["s"].ret = 0 =>
          \E i \in Slots : /\ KeyEq(S'[i].key, pr'["s"].key)
                           /\ S'[i].type_flag = pr'["s"].arg]_vars
  /\ [][pr["s"].op = "set" /\ pr["s"].pc \notin {"idle", "done"} =>
          \A i \in Slots : /\ S'[i].type_flag = S[i].type_flag
                           /\ S'[i].watcher_mask = S[i].watcher_mask
                           /\ S'[i].bloom = S[i].bloom
                           /\ S'[i].ctime = S[i].ctime
                           /\ S'[i].atime = S[i].atime]_vars
  /\ [][(/\ Returns("s", "integer_op")
         /\ \E i \in Slots : /\ KeyEq(S[i].key, pr["s"].key)
                             /\ HasBit(S[i].type_flag, SPL_SLOT_TYPE_BIGUINT)
                             /\ S[i].val_len = 8)
          => pr'["s"].ret = 0]_vars


\* the 8 bytes the conversion to BIGUINT is to give for the value v: the
\* leading digits of v as a decimal numeral, or v padded with zeros when it
\* starts with no digit
DecimalOrRaw(v) ==
  IF v[1] >= 48 /\ v[1] <= 57
    THEN Bytes(ParseDigits(v, 1, 10, 0), 8)
    ELSE v \o [i \in 1 .. (8 - Len(v)) |-> 0]

\* C40: after set(k, v) with v shorter than 8 bytes (the value the key is
\* rewritten with, the one issued value other than ValX) and
\* set_named_type(k, BIGUINT), the slot has val_len 8 and get(k) returns the
\* 8 bytes of the decimal value of the leading digits of v ("010" gives 10),
\* or of v zero-extended when v starts with no digit
C40_ConversionIsDecimal ==
  Returned("s", "get") /\ pr["s"].ret = 0 =>
    /\ \A i \in Slots : KeyEq(S[i].key, KeyB) => S[i].val_len = 8
    /\ \A v \in G.issued[KeyB] \ {ValX} : pr["s"].buf = DecimalOrRaw(v)

\* C39: on a store that exists, no step of a create or a create_or_open
\* changes the header, the slots or the values; create returns a failure;
\* create_or_open returns 0 with the store attached, and the key set
\* before it is still held by a slot
C39_CreateKeepsExistingStore ==
  /\ [][pr["c"].op \in {"create", "create_or_open"}
          /\ pr["c"].pc \notin {"idle", "done"}
          => UNCHANGED <<H, S, mem>>]_vars
  /\ [](Returned("c", "create") => pr["c"].ret # 0)
  /\ [](Returned("c", "create_or_open") =>
          /\ pr["c"].ret = 0
          /\ pr["c"].mapped
          /\ \A k \in {j \in DOMAIN G.bound : G.bound[j]} :
                \E i \in Slots : S[i].hash # Zero64 /\ KeyEq(S[i].key, k))
=============================================================================
